---------------------------- MODULE Spec2Model ----------------------------
(***************************************************************************)
(* Verification model of the LifeSimulation particle core:                 *)
(*   - ParticleSystem (src/src/Graphics/ParticleSystem.cpp, the OpenMP     *)
(*     build, lines 97-386, declared by ParticleSystem.h)                  *)
(*   - Particle and its static interaction matrix (src/unnamed/part_004,   *)
(*     declared by src/src/Graphics/Particle.h)                            *)
(*                                                                         *)
(* Numbers.  C++ floats are modelled as fixed-point integers with FP       *)
(* steps per unit (1.0F is FP).  Products are divided back by FP with      *)
(* truncation toward zero.  Time steps are in milliseconds.                *)
(* Indices are 0-based as in the source; sequences are 1-based, so slot i  *)
(* of a vector v is v[i + 1].                                              *)
(*                                                                         *)
(* Not part of the state: the contents of the render instance buffer       *)
(* (instanceData; only which slots a call refreshes is recorded), the GL   *)
(* handles, colour and the unused acceleration field.                      *)
(***************************************************************************)
EXTENDS Integers, Sequences, FiniteSets, TLC

VARIABLES
  maxParticles,        \* ParticleSystem::maxParticles
  particles,           \* ParticleSystem::particles (std::vector<Particle>)
  nextParticleIndex,   \* ParticleSystem::nextParticleIndex
  autoRemoveInactive,  \* ParticleSystem::autoRemoveInactive
  inactiveIndices,     \* function-static cache of createParticle
  interactionMatrix,   \* Particle::interactionMatrix (rows of fixed-point cells)
  numParticleTypes,    \* Particle::numParticleTypes
  initialized,         \* Particle::initialized
  particleCount,       \* Particle::particleCount (registrations so far)
  boundary,            \* simulation::boundaryLeft/Right/Top/Bottom
  enableBounds,        \* simulation::enableBounds
  ticks,               \* number of update calls so far in which a particle moved
  input,               \* the arguments a pure function is evaluated on
  timeAccumulator,     \* function-static of Particle::update, in milliseconds
  call,                \* the kernel or update call in progress, phase by phase
  interactionLUT,      \* function-statics interactionLUT and lutInitialized
  bodies,              \* the particles a quadtree is built over (position, mass)
  inserted,            \* the bodies handed to Quadtree::insert since the last reset
  quadtree,            \* Quadtree: nodes and rootNodeIndex
  optimizedQuadtree,   \* OptimizedQuadtree: nodes and rootNode
  op,                  \* observation: the operation that produced this state
  ret,                 \* observation: what that operation returned / saw
  fault                \* observation: undefined behaviour or exception met

vars == <<maxParticles, particles, nextParticleIndex, autoRemoveInactive,
          inactiveIndices, interactionMatrix, numParticleTypes, initialized,
          particleCount, boundary, enableBounds, ticks, input,
          timeAccumulator, call, interactionLUT, bodies, inserted, quadtree,
          optimizedQuadtree, op, ret, fault>>

\* the state of the two quadtree classes and of their callers
treeVars == <<bodies, inserted, quadtree, optimizedQuadtree>>

-----------------------------------------------------------------------------
(* Bounds of the model *)

\* largest capacity a ParticleSystem is built with
MaxCap == 2
\* cap on nextParticleIndex (a size_t that only ever grows)
MaxNext == 3
\* Particle::MAX_PARTICLES (1000000 in the source), scaled down so that the
\* registration counter can pass it
MAX_PARTICLES == 3
\* width and height of the boundary rectangle, in grid cells of R_MAX
WorldCellsX == 3
WorldCellsY == 2
\* cap on the number of update calls in which a particle moves
MaxTicks == 2

(* Program constants *)

\* fixed-point steps per unit: two decimal digits
FP == 10 * 10
\* Particle::BETA = 0.3F
BETA == (3 * FP) \div 10
\* ParticleSystem::R_MAX = 60.0F, in whole units
R_MAX == 60
\* ParticleSystem::gridCellSize = R_MAX
gridCellSize == R_MAX * FP
\* ParticleSystem::R_MAX_SQR = R_MAX * R_MAX
R_MAX_SQR == (R_MAX * FP) * (R_MAX * FP)
\* the literal 2.5F of the minimum-distance guard
MIN_DIST_SQR == (5 * FP * FP) \div 2
\* ParticleSystem::update PARTICLE_THRESHOLD
PARTICLE_THRESHOLD == 100
\* Particle::frictionFactor = pow(0.5, 0.02/0.040) = 0.7071...
frictionFactor == (71 * FP) \div 100
\* the bounce factor -0.9F of Particle::update
bounce_factor == -((9 * FP) \div 10)
\* Particle::Particle() radius(5.0F)
DefaultRadius == 5 * FP

\* the side of the lookup table of the kernel kept in Test.md
MAX_PARTICLE_TYPES == 10

\* above this many particles update() integrates in a parallel loop
BATCH_SIZE == 1024

\* 0.016666667F seconds, the refresh period of the instance data; times are
\* whole milliseconds, for which >= 16.666667 is >= 17
FrameTime == 17

\* values an interaction cell can be drawn as by uniform_real_distribution(-1, 1)
RandVals == {-FP, FP}
\* values a caller passes to setInteractionStrength: any float, here -1, 0
\* and 2
SetVals == {-FP, 0, 2 * FP}
\* what an int that was never initialised may hold
GarbageInts == {-1, 0}
\* the frame times update is called with, in milliseconds
DeltaTimes == {20, 50}
\* the type counts passed to initInteractionMatrix and setNumParticleTypes
TypeCounts == {0, 1, 2}
\* the type indices a caller passes, in and out of range of every type count
TypeArgs == {-1, 0, 1, 2}

-----------------------------------------------------------------------------
(* Fixed-point arithmetic *)

Abs(x) == IF x < 0 THEN -x ELSE x

Min(a, b) == IF a < b THEN a ELSE b

\* division rounding toward zero, b > 0
TDiv(a, b) == IF a >= 0 THEN a \div b ELSE -((-a) \div b)

\* product of two fixed-point numbers
Mul(a, b) == TDiv(a * b, FP)

RECURSIVE SqrtBetween(_, _, _)
SqrtBetween(n, lo, hi) ==
  IF lo >= hi THEN lo
  ELSE LET mid == (lo + hi + 1) \div 2
       IN  IF mid * mid <= n THEN SqrtBetween(n, mid, hi)
           ELSE SqrtBetween(n, lo, mid - 1)

\* std::sqrt on a fixed-point square: the largest r with r*r <= n
Sqrt(n) == SqrtBetween(n, 0, R_MAX * FP)

-----------------------------------------------------------------------------
(* Particle: the static interaction matrix *)

\* whether m[type1][type2] names a cell that the vector of vectors holds
CellStored(m, type1, type2) ==
  /\ type1 >= 0 /\ type1 < Len(m)
  /\ type2 >= 0 /\ type2 < Len(m[type1 + 1])

\* the range test of getInteractionStrength and setInteractionStrength
TypesInRange(n, type1, type2) ==
  type1 >= 0 /\ type1 < n /\ type2 >= 0 /\ type2 < n

\* Particle::getInteractionStrength on matrix m with numParticleTypes n; an
\* index that passes the range test is used without looking at the vector
getInteractionStrength(m, n, type1, type2) ==
  IF TypesInRange(n, type1, type2) THEN m[type1 + 1][type2 + 1] ELSE 0

\* the read interactionMatrix[type1][type2] falls outside the stored table
readOutOfBounds(m, n, type1, type2) ==
  TypesInRange(n, type1, type2) /\ ~CellStored(m, type1, type2)

\* the n x n table of zeros that initInteractionMatrix builds first
ZeroMatrix(n) == [i \in 1..n |-> [j \in 1..n |-> 0]]

\* Particle::randomizeInteractionMatrix on an n x n table: every cell is drawn
\* independently, so every table over RandVals is a possible result
randomizeInteractionMatrix(n) == [1..n -> [1..n -> RandVals]]

\* Particle::initInteractionMatrix(numTypes), numTypes >= 0: the possible
\* tables after it returns (it zero-fills, then calls
\* randomizeInteractionMatrix)
initInteractionMatrix(numTypes) == randomizeInteractionMatrix(numTypes)

-----------------------------------------------------------------------------
(* Particle: construction, assignment *)

\* Particle::Particle() run when particleCount registrations were made; the
\* member particleType is not initialised by the constructor
NewParticle(count, garbage) ==
  [position |-> <<0, 0>>, velocity |-> <<0, 0>>, radius |-> DefaultRadius,
   active |-> (count + 1 <= MAX_PARTICLES), particleType |-> garbage]

\* particleCount++ ; every value above MAX_PARTICLES behaves alike, so the
\* counter stops one above it
Registered(count) == Min(count + 1, MAX_PARTICLES + 1)

\* Particle::operator=: copies position, velocity, radius and active; the
\* target keeps its own particleType
Assign(target, other) ==
  [target EXCEPT !.position = other.position, !.velocity = other.velocity,
                 !.radius = other.radius, !.active = other.active]

-----------------------------------------------------------------------------
(* Particle::calculateForce *)

\* the scalar build (#else branch)
calculateForceScalar(r_norm, a) ==
  IF r_norm < BETA THEN TDiv(r_norm * FP, BETA) - FP
  ELSE IF r_norm < FP
       THEN LET inner_term == (2 * r_norm) - FP - BETA
            IN  Mul(a, FP - TDiv(Abs(inner_term) * FP, FP - BETA))
       ELSE 0

\* the NEON build with the absolute value of the inner term left out
calculateForceNeon_noAbs(r_norm, a) ==
  LET repulsion == TDiv(r_norm * FP, BETA) - FP
      inner_term == ((2 * r_norm) - FP) - BETA
      one_minus_beta == FP - BETA
      attraction == Mul(a, FP - TDiv(inner_term * FP, one_minus_beta))
      case1 == r_norm < BETA
      case2 == r_norm > BETA /\ r_norm < FP
  IN  IF case1 THEN repulsion ELSE IF case2 THEN attraction ELSE 0

\* the NEON build (#ifdef __ARM_NEON branch): both lobes are computed and
\* the result is selected by the two lane masks
calculateForceNeon(r_norm, a) ==
  LET repulsion == TDiv(r_norm * FP, BETA) - FP
      inner_term == ((2 * r_norm) - FP) - BETA
      abs_inner == Abs(inner_term)
      one_minus_beta == FP - BETA
      attraction == Mul(a, FP - TDiv(abs_inner * FP, one_minus_beta))
      case1 == r_norm < BETA
      case2 == r_norm > BETA /\ r_norm < FP
  IN  IF case1 THEN repulsion ELSE IF case2 THEN attraction ELSE 0

\* the compute shader's calculateForce, with uniform beta = BETA
calculateForceGlsl(r_norm, a) ==
  IF r_norm < BETA THEN TDiv(r_norm * FP, BETA) - FP
  ELSE IF BETA < r_norm /\ r_norm < FP
       THEN Mul(a, FP - TDiv(Abs((2 * r_norm) - FP - BETA) * FP, FP - BETA))
       ELSE 0

\* a law whose inner lobe is scaled by the matrix entry like the outer one
calculateForce_scaledCore(r_norm, a) ==
  IF r_norm < BETA THEN Mul(a, TDiv(r_norm * FP, BETA) - FP)
  ELSE calculateForceNeon(r_norm, a)

\* Particle::calculateForce as ParticleSystem.cpp (which includes arm_neon.h)
\* is built
calculateForce(r_norm, a) == calculateForceNeon(r_norm, a)

-----------------------------------------------------------------------------
(* ParticleSystem: the pair test and the pair term shared by both kernels *)

\* pos_j - pos_i
distVecOf(ps, i, j) ==
  <<ps[j + 1].position[1] - ps[i + 1].position[1],
    ps[j + 1].position[2] - ps[i + 1].position[2]>>

\* glm::dot(dist, dist); a component of R_MAX or more already puts the square
\* at or above R_MAX_SQR, and the value is held there to stay within the
\* integer width of TLC
dot(d) ==
  IF Abs(d[1]) >= R_MAX * FP \/ Abs(d[2]) >= R_MAX * FP THEN R_MAX_SQR
  ELSE (d[1] * d[1]) + (d[2] * d[2])

\* a guard whose two comparisons are strict the other way round
inRange_shifted(distSqr) == ~(distSqr <= MIN_DIST_SQR \/ distSqr > R_MAX_SQR)

\* the distance guard: distSqr < 2.5F || distSqr >= R_MAX_SQR means skip
inRange(distSqr) == ~(distSqr < MIN_DIST_SQR \/ distSqr >= R_MAX_SQR)

\* the lookup with the two types exchanged
interactionOf_swapped(ps, m, n, i, j) ==
  getInteractionStrength(m, n, ps[j + 1].particleType, ps[i + 1].particleType)

\* the strength looked up for particle i evaluating neighbour j
interactionOf(ps, m, n, i, j) ==
  getInteractionStrength(m, n, ps[i + 1].particleType, ps[j + 1].particleType)

\* distVec * (forceMag * invDist) for a given strength, with
\* invDist = 1/sqrt(distSqr), distance = distSqr * invDist and
\* normDist = distance * invRMax
pairForce(ps, i, j, interaction) ==
  LET distVec == distVecOf(ps, i, j)
      distance == Sqrt(dot(distVec))
      normDist == TDiv(distance, R_MAX)
      forceMag == calculateForce(normDist, interaction)
  IN  <<TDiv(distVec[1] * forceMag, distance), TDiv(distVec[2] * forceMag, distance)>>

\* the term particle i's total receives from neighbour j
forceTerm(ps, m, n, i, j) == pairForce(ps, i, j, interactionOf(ps, m, n, i, j))

RECURSIVE SumTerms(_, _, _, _, _)
\* totalForce accumulated over the neighbours listed in js, in order
SumTerms(ps, m, n, i, js) ==
  IF js = <<>> THEN <<0, 0>>
  ELSE LET t == forceTerm(ps, m, n, i, Head(js))
           rest == SumTerms(ps, m, n, i, Tail(js))
       IN  <<t[1] + rest[1], t[2] + rest[2]>>

\* velocity + force * deltaTime, deltaTime in milliseconds
applyForce(p, force, deltaTime) ==
  [p EXCEPT !.velocity = <<p.velocity[1] + TDiv(force[1] * deltaTime, 1000),
                           p.velocity[2] + TDiv(force[2] * deltaTime, 1000)>>]

\* the elements of a sequence
Range(seq) == {seq[x] : x \in 1..Len(seq)}

\* the indices 0 .. n-1 in ascending order
Indices(n) == [k \in 1..n |-> k - 1]

-----------------------------------------------------------------------------
(* ParticleSystem::simplifiedForceCalculation: the all-pairs kernel *)

\* an all-pairs scan that does not test the neighbour's active flag
simplifiedPairs_keepInactive(ps, ii) ==
  IF ~ps[ii + 1].active THEN <<>>
  ELSE SelectSeq(Indices(Len(ps)),
         LAMBDA jj : /\ ii # jj
                     /\ inRange(dot(distVecOf(ps, ii, jj))))

\* the neighbours jj whose term is added to particle ii's total, in loop order
simplifiedPairs(ps, ii) ==
  IF ~ps[ii + 1].active THEN <<>>
  ELSE SelectSeq(Indices(Len(ps)),
         LAMBDA jj : /\ ~(ii = jj \/ ~ps[jj + 1].active)
                     /\ inRange(dot(distVecOf(ps, ii, jj))))

\* for every slot, the neighbours the all-pairs scan adds to its total
simplifiedNeighbours(ps) == [k \in 1..Len(ps) |-> simplifiedPairs(ps, k - 1)]

\* forces[ii] = totalForce * R_MAX, totalForce summed over the neighbours
\* listed for ii (zero where none is listed); forceBuffer in the grid kernel
forcesFrom(ps, m, n, pairs) ==
  [k \in 1..Len(ps) |->
     LET total == SumTerms(ps, m, n, k - 1, pairs[k])
     IN  <<total[1] * R_MAX, total[2] * R_MAX>>]

\* the second loop of simplifiedForceCalculation and applyForcesOMP: active
\* particles get velocity + force * deltaTime
applyForces(ps, forces, deltaTime) ==
  [k \in 1..Len(ps) |->
     IF ~ps[k].active THEN ps[k] ELSE applyForce(ps[k], forces[k], deltaTime)]

-----------------------------------------------------------------------------
(* ParticleSystem::calculateInteractionForces: the grid kernel *)

\* std::ceil(a / b) for b > 0
Ceil(a, b) == -((-a) \div b)

\* a clamp without its lower end
clamp_upper(v, lo, hi) == IF hi < v THEN hi ELSE v

\* std::clamp(v, lo, hi), lo <= hi
clamp(v, lo, hi) == IF v < lo THEN lo ELSE IF hi < v THEN hi ELSE v

gridWidth(b) == Ceil(b.right - b.left, gridCellSize)

gridHeight(b) == Ceil(b.bottom - b.top, gridCellSize)

\* the cell coordinates populateSpatialGrid records for position pos:
\* static_cast<int> truncates toward zero, then the value is clamped
cellOf(b, pos) ==
  <<clamp(TDiv(pos[1] - b.left, gridCellSize), 0, gridWidth(b) - 1),
    clamp(TDiv(pos[2] - b.top, gridCellSize), 0, gridHeight(b) - 1)>>

\* populateSpatialGrid: activeParticles, cellX/cellY (value-initialised to 0
\* and written for active particles only) and the cell lists
populateSpatialGrid(ps, b) ==
  LET act == SelectSeq(Indices(Len(ps)), LAMBDA i : ps[i + 1].active)
      cell == [k \in 1..Len(ps) |->
                 IF ps[k].active THEN cellOf(b, ps[k].position) ELSE <<0, 0>>]
  IN  [activeParticles |-> act,
       cellX |-> [k \in 1..Len(ps) |-> cell[k][1]],
       cellY |-> [k \in 1..Len(ps) |-> cell[k][2]],
       grid |-> [c \in 0..((gridWidth(b) * gridHeight(b)) - 1) |->
                   SelectSeq(act, LAMBDA i :
                     (cell[i + 1][2] * gridWidth(b)) + cell[i + 1][1] = c)]]

\* a scan that leaves out the cell to the right
Offsets_noRight ==
  <<<<-1, -1>>, <<0, -1>>, <<1, -1>>, <<-1, 0>>, <<0, 0>>,
    <<-1, 1>>, <<0, 1>>, <<1, 1>>>>

\* the nine (dx, dy) offsets in the order of the two nested loops
Offsets ==
  <<<<-1, -1>>, <<0, -1>>, <<1, -1>>, <<-1, 0>>, <<0, 0>>, <<1, 0>>,
    <<-1, 1>>, <<0, 1>>, <<1, 1>>>>

RECURSIVE visitedFrom(_, _, _, _)
\* the particle indices met by the 3x3 scan around cell (x, y), offsets k..9
visitedFrom(g, b, xy, k) ==
  IF k > Len(Offsets) THEN <<>>
  ELSE LET nx == xy[1] + Offsets[k][1]
           ny == xy[2] + Offsets[k][2]
           rest == visitedFrom(g, b, xy, k + 1)
       IN  IF nx < 0 \/ ny < 0 \/ nx >= gridWidth(b) \/ ny >= gridHeight(b)
           THEN rest
           ELSE g.grid[(ny * gridWidth(b)) + nx] \o rest

\* ParticleSystem::shouldComputeForce(i, j, ...)
shouldComputeForce(ps, i, j) ==
  IF i = j \/ ~ps[j + 1].active THEN FALSE
  ELSE inRange(dot(distVecOf(ps, i, j)))

\* the neighbours j whose term is added to active particle i's total
gridPairs(ps, g, b, i) ==
  SelectSeq(visitedFrom(g, b, <<g.cellX[i + 1], g.cellY[i + 1]>>, 1),
            LAMBDA j : shouldComputeForce(ps, i, j))

\* for every slot, the neighbours computeInteractionForcesOMP adds to its
\* total; only the slots in activeParticles are visited
gridNeighbours(ps, b) ==
  LET g == populateSpatialGrid(ps, b)
  IN  [k \in 1..Len(ps) |->
         IF ps[k].active THEN gridPairs(ps, g, b, k - 1) ELSE <<>>]

-----------------------------------------------------------------------------
(* Particle::update, the integrator *)

\* a boundary step that reverses the velocity without damping it
reflectAxis_undamped(pos, vel, bound) ==
  LET over_bounds == pos > bound
      under_bounds == pos < -bound
  IN  <<IF over_bounds THEN bound ELSE IF under_bounds THEN -bound ELSE pos,
        IF over_bounds \/ under_bounds THEN -vel ELSE vel>>

\* one axis of the boundary step: position and velocity after the clamp
reflectAxis(pos, vel, bound) ==
  LET over_bounds == pos > bound
      under_bounds == pos < -bound
  IN  <<IF over_bounds THEN bound ELSE IF under_bounds THEN -bound ELSE pos,
        IF over_bounds \/ under_bounds THEN Mul(vel, bounce_factor) ELSE vel>>

\* Particle::update(deltaTime), deltaTime in milliseconds
particleUpdate(p, b, bounds, deltaTime) ==
  IF ~p.active THEN p
  ELSE LET boundX == ((b.right - b.left) \div 2) - p.radius
           boundY == ((b.bottom - b.top) \div 2) - p.radius
           x == IF bounds THEN reflectAxis(p.position[1], p.velocity[1], boundX)
                ELSE <<p.position[1], p.velocity[1]>>
           y == IF bounds THEN reflectAxis(p.position[2], p.velocity[2], boundY)
                ELSE <<p.position[2], p.velocity[2]>>
           velX == Mul(x[2], frictionFactor)
           velY == Mul(y[2], frictionFactor)
       IN  [p EXCEPT !.position = <<x[1] + TDiv(velX * deltaTime, 1000),
                                    y[1] + TDiv(velY * deltaTime, 1000)>>,
                     !.velocity = <<velX, velY>>]

\* the tail of Particle::update for an active particle: timeAccumulator +=
\* deltaTime, and at FrameTime or more the instance slot is refreshed and the
\* accumulator starts again
accumulate(acc, deltaTime) ==
  IF acc + deltaTime >= FrameTime THEN [timeAccumulator |-> 0, refresh |-> TRUE]
  ELSE [timeAccumulator |-> acc + deltaTime, refresh |-> FALSE]

RECURSIVE accumulateFrom(_, _, _, _, _)
\* the accumulator and the set of refreshed instance slots after the
\* sequential loop has called Particle::update on slots k .. size-1
accumulateFrom(ps, k, acc, refreshed, deltaTime) ==
  IF k >= Len(ps) THEN [timeAccumulator |-> acc, refreshed |-> refreshed]
  ELSE IF ~ps[k + 1].active
       THEN accumulateFrom(ps, k + 1, acc, refreshed, deltaTime)
       ELSE LET a == accumulate(acc, deltaTime)
            IN  accumulateFrom(ps, k + 1, a.timeAccumulator,
                               IF a.refresh THEN refreshed \cup {k} ELSE refreshed,
                               deltaTime)

-----------------------------------------------------------------------------
(* ParticleSystem::update: the erase of inactive particles *)

RECURSIVE removeFrom(_, _, _)
\* std::remove_if from source index i on, first being the next slot to fill:
\* a kept element is copy-assigned (Particle::operator=) into slot first
removeFrom(ps, first, i) ==
  IF i > Len(ps) THEN SubSeq(ps, 1, first - 1)
  ELSE IF ps[i].active
       THEN removeFrom([ps EXCEPT ![first] = Assign(ps[first], ps[i])], first + 1, i + 1)
       ELSE removeFrom(ps, first, i + 1)

\* particles.erase(std::remove_if(..., !isActive), end)
removeInactive(ps) ==
  IF \A k \in 1..Len(ps) : ps[k].active THEN ps
  ELSE LET first == CHOOSE k \in 1..Len(ps) :
                      ~ps[k].active /\ \A l \in 1..(k - 1) : ps[l].active
       IN  removeFrom(ps, first, first + 1)

-----------------------------------------------------------------------------
(* Observations *)

\* what an operation that returns nothing leaves in ret
NoRet ==
  [index |-> -1, full |-> FALSE, anyInactive |-> FALSE, wasActive |-> FALSE,
   next |-> 0, value |-> 0, type1 |-> 0, type2 |-> 0, deltaTime |-> 0,
   pairs |-> <<>>, moved |-> {}, refreshed |-> {}, target |-> 0,
   force |-> <<0, 0>>, used |-> <<>>]

NoInput == <<>>

\* a Quadtree after construction: no node, rootNodeIndex = -1
NoQuadtree == [nodes |-> <<>>, rootNodeIndex |-> -1]

\* an OptimizedQuadtree after construction: no node, rootNode = nullptr
NoOptimizedQuadtree == [nodes |-> <<>>, rootNode |-> -1]

\* the lookup table before the first call that fills it:
\* static float interactionLUT[MAX_PARTICLE_TYPES][MAX_PARTICLE_TYPES] = {{0}}
NoLUT ==
  [lutInitialized |-> FALSE,
   table |-> [i \in 0..(MAX_PARTICLE_TYPES - 1) |->
               [j \in 0..(MAX_PARTICLE_TYPES - 1) |-> 0]]]

\* no kernel or update call in progress
Idle ==
  [name |-> "none", phase |-> "idle", deltaTime |-> 0, atStart |-> <<>>,
   accAtStart |-> 0,
   pairs |-> <<>>, forceBuffer |-> <<>>, pending |-> {}, computed |-> {},
   applied |-> {}, loaded |-> <<>>, accesses |-> {}, refreshed |-> {}]

\* the indices of the inactive particles, ascending
inactiveOf(ps) == SelectSeq(Indices(Len(ps)), LAMBDA i : ~ps[i + 1].active)

Front(q) == SubSeq(q, 1, Len(q) - 1)

Last(q) == q[Len(q)]

-----------------------------------------------------------------------------
(* State after static initialisation and ParticleSystem(maxParticles) *)

\* the type counts the process starts with (numParticleTypes is 6 in the
\* source; a smaller table keeps the matrices enumerable)
InitTypeCounts == {1}

\* simulation::boundaryLeft/Top = 0, boundaryRight/Bottom = the window size
DefaultBoundary ==
  [left |-> 0, right |-> WorldCellsX * gridCellSize,
   top |-> 0, bottom |-> WorldCellsY * gridCellSize]

Init ==
  /\ maxParticles \in 1..MaxCap
  /\ particles = <<>>
  /\ nextParticleIndex = 0
  /\ autoRemoveInactive = TRUE
  /\ inactiveIndices = <<>>
  /\ numParticleTypes \in InitTypeCounts
  /\ interactionMatrix \in initInteractionMatrix(numParticleTypes)
  /\ initialized = TRUE
  /\ particleCount = 0
  /\ boundary = DefaultBoundary
  /\ enableBounds = FALSE
  /\ ticks = 0
  /\ input = NoInput
  /\ op = "init"
  /\ ret = NoRet
  /\ fault = "none"
  /\ timeAccumulator = 0
  /\ call = Idle
  /\ interactionLUT = NoLUT
  /\ bodies = <<>>
  /\ inserted = <<>>
  /\ quadtree = NoQuadtree
  /\ optimizedQuadtree = NoOptimizedQuadtree

-----------------------------------------------------------------------------
(* ParticleSystem operations *)

\* a capacity test that is off by one
hasRoom_offByOne(size, max) == size <= max

\* createParticle's capacity test: particles.size() < maxParticles
hasRoom(size, max) == size < max

\* createParticle's cache of inactive indices after the rebuild test
\* (inactiveIndices.empty() || more than a second since the last rebuild)
rebuildCache(cache, elapsed, ps) ==
  IF cache = <<>> \/ elapsed THEN inactiveOf(ps) ELSE cache

\* createParticle's round-robin slot: nextParticleIndex % particles.size()
roundRobinIndex(next, size) == next % size

\* Particle::initializeSharedResources reached from the Particle constructor
\* when the shared resources are not initialised
ctorMatrices ==
  IF initialized THEN {interactionMatrix}
  ELSE initInteractionMatrix(numParticleTypes)

\* ParticleSystem::createParticle(); elapsed says whether more than a second
\* passed since the cache of inactive indices was rebuilt, garbage is what
\* the uninitialised particleType of a new Particle holds
CreateParticle(elapsed, garbage) ==
  /\ fault = "none"
  /\ op' = "createParticle"
  /\ IF hasRoom(Len(particles), maxParticles)
     THEN /\ interactionMatrix' \in ctorMatrices
          /\ initialized' = TRUE
          /\ particles' = Append(particles, NewParticle(particleCount, garbage))
          /\ particleCount' = Registered(particleCount)
          /\ ret' = [NoRet EXCEPT !.index = Len(particles), !.next = nextParticleIndex]
          /\ UNCHANGED <<nextParticleIndex, inactiveIndices, fault>>
     ELSE LET rebuilt == rebuildCache(inactiveIndices, elapsed, particles)
              seen == [NoRet EXCEPT
                         !.full = TRUE,
                         !.anyInactive = \E k \in 1..Len(particles) : ~particles[k].active,
                         !.next = nextParticleIndex]
          IN  IF rebuilt # <<>>
              THEN LET index == Last(rebuilt)
                   IN  /\ inactiveIndices' = Front(rebuilt)
                       /\ IF index < Len(particles)
                          THEN /\ particles' = [particles EXCEPT ![index + 1].active = TRUE]
                               /\ ret' = [seen EXCEPT !.index = index,
                                            !.wasActive = particles[index + 1].active]
                               /\ fault' = fault
                          ELSE /\ particles' = particles
                               /\ ret' = [seen EXCEPT !.index = index]
                               /\ fault' = "out_of_bounds"
                       /\ UNCHANGED <<nextParticleIndex, interactionMatrix,
                                      initialized, particleCount>>
              ELSE /\ nextParticleIndex < MaxNext
                   /\ LET index == roundRobinIndex(nextParticleIndex, Len(particles))
                      IN  ret' = [seen EXCEPT !.index = index,
                                    !.wasActive = particles[index + 1].active]
                   /\ nextParticleIndex' = nextParticleIndex + 1
                   /\ inactiveIndices' = rebuilt
                   /\ UNCHANGED <<particles, interactionMatrix, initialized,
                                  particleCount, fault>>
  /\ UNCHANGED <<maxParticles, autoRemoveInactive, numParticleTypes, boundary,
                 enableBounds, ticks, input>>
  /\ UNCHANGED <<timeAccumulator, call, interactionLUT, treeVars>>

\* Particle::setActive(active) on the particle in slot i
SetActive(i, active) ==
  /\ fault = "none"
  /\ i < Len(particles)
  /\ particles' = [particles EXCEPT ![i + 1].active = active]
  /\ op' = "setActive"
  /\ ret' = NoRet
  /\ UNCHANGED <<maxParticles, nextParticleIndex, autoRemoveInactive,
                 inactiveIndices, interactionMatrix, numParticleTypes,
                 initialized, particleCount, boundary, enableBounds, ticks,
                 input, fault>>
  /\ UNCHANGED <<timeAccumulator, call, interactionLUT, treeVars>>

\* ParticleSystem::setAutoRemoveInactive(value)
SetAutoRemoveInactive(value) ==
  /\ fault = "none"
  /\ autoRemoveInactive' = value
  /\ op' = "setAutoRemoveInactive"
  /\ ret' = NoRet
  /\ UNCHANGED <<maxParticles, particles, nextParticleIndex, inactiveIndices,
                 interactionMatrix, numParticleTypes, initialized,
                 particleCount, boundary, enableBounds, ticks, input, fault>>
  /\ UNCHANGED <<timeAccumulator, call, interactionLUT, treeVars>>

\* ParticleSystem::clear(): particles.clear(), cleanupSharedResources(),
\* initializeSharedResources()
Clear ==
  /\ fault = "none"
  /\ particles' = <<>>
  /\ particleCount' = IF initialized THEN 0 ELSE particleCount
  /\ interactionMatrix' \in initInteractionMatrix(numParticleTypes)
  /\ initialized' = TRUE
  /\ op' = "clear"
  /\ ret' = NoRet
  /\ UNCHANGED <<maxParticles, nextParticleIndex, autoRemoveInactive,
                 inactiveIndices, numParticleTypes, boundary, enableBounds,
                 ticks, input, fault>>
  /\ UNCHANGED <<timeAccumulator, call, interactionLUT, treeVars>>


\* which kernel update() selects for n particles
kernelFor(n) ==
  IF n > PARTICLE_THRESHOLD THEN "grid" ELSE IF n # 0 THEN "simplified" ELSE "none"

\* for every slot, the neighbours whose term the kernel adds to its total
pairsOf(kernel, ps, b) ==
  IF kernel = "grid" THEN gridNeighbours(ps, b)
  ELSE IF kernel = "simplified" THEN simplifiedNeighbours(ps)
  ELSE [k \in 1..Len(ps) |-> <<>>]

\* what goes wrong in the force phase, if anything: a grid of negative size
\* cannot be allocated; with no cell on an axis std::clamp(v, 0, -1) and the
\* cell access are undefined; a strength read outside the stored table is
\* undefined
forceFault(kernel, ps, m, n, b, pairs) ==
  IF kernel = "grid" /\ gridWidth(b) * gridHeight(b) < 0 THEN "length_error"
  ELSE IF /\ kernel = "grid"
          /\ (gridWidth(b) < 1 \/ gridHeight(b) < 1)
          /\ \E k \in 1..Len(ps) : ps[k].active
       THEN "out_of_bounds"
       ELSE IF \E k \in 1..Len(ps) : \E x \in 1..Len(pairs[k]) :
                 readOutOfBounds(m, n, ps[k].particleType,
                                 ps[pairs[k][x] + 1].particleType)
            THEN "out_of_bounds" ELSE "none"

\* the neighbour lists the kernel will use: none when the grid cannot be
\* built
scanOf(kernel, ps, b) ==
  IF kernel = "grid" /\ (gridWidth(b) < 1 \/ gridHeight(b) < 1)
  THEN [k \in 1..Len(ps) |-> <<>>]
  ELSE pairsOf(kernel, ps, b)

\* one call of a force kernel, followed (integrate) by the per-particle
\* Particle::update and the erase of inactive particles
Tick(name, kernel, integrate, deltaTime) ==
  /\ fault = "none"
  /\ op' = name
  /\ \E pairs \in {scanOf(kernel, particles, boundary)} :
       LET bad == forceFault(kernel, particles, interactionMatrix,
                             numParticleTypes, boundary, pairs)
       IN  IF bad # "none"
           THEN /\ fault' = bad
                /\ ret' = NoRet
                /\ UNCHANGED <<particles, ticks, timeAccumulator>>
           ELSE \E updated \in
                  {LET forces == forcesFrom(particles, interactionMatrix,
                                            numParticleTypes, pairs)
                       forced == IF kernel = "none" THEN particles
                                 ELSE applyForces(particles, forces, deltaTime)
                   IN  IF integrate
                       THEN [k \in 1..Len(forced) |->
                               particleUpdate(forced[k], boundary, enableBounds, deltaTime)]
                       ELSE forced} :
                  /\ updated = particles \/ ticks < MaxTicks
                  /\ ticks' = IF updated = particles THEN ticks ELSE ticks + 1
                  /\ particles' = IF integrate /\ autoRemoveInactive
                                  THEN removeInactive(updated) ELSE updated
                  /\ timeAccumulator' =
                       IF integrate
                       THEN accumulateFrom(particles, 0, timeAccumulator, {},
                                           deltaTime).timeAccumulator
                       ELSE timeAccumulator
                  /\ ret' = [NoRet EXCEPT !.pairs = pairs, !.deltaTime = deltaTime]
                  /\ fault' = fault
  /\ UNCHANGED <<maxParticles, nextParticleIndex, autoRemoveInactive,
                 inactiveIndices, interactionMatrix, numParticleTypes,
                 initialized, particleCount, boundary, enableBounds, input, call,
                 interactionLUT, treeVars>>

\* ParticleSystem::update(deltaTime)
Update(deltaTime) == Tick("update", kernelFor(Len(particles)), TRUE, deltaTime)

\* ParticleSystem::simplifiedForceCalculation(deltaTime), called directly
SimplifiedForceCalculation(deltaTime) ==
  Tick("simplifiedForceCalculation", "simplified", FALSE, deltaTime)

\* ParticleSystem::calculateInteractionForces(deltaTime), called directly
CalculateInteractionForces(deltaTime) ==
  Tick("calculateInteractionForces", "grid", FALSE, deltaTime)

-----------------------------------------------------------------------------
(* Particle: operations on the interaction matrix *)

\* Particle::initInteractionMatrix(numTypes), called directly
InitInteractionMatrix(numTypes) ==
  /\ fault = "none"
  /\ numParticleTypes' = numTypes
  /\ interactionMatrix' \in initInteractionMatrix(numTypes)
  /\ op' = "initInteractionMatrix"
  /\ ret' = [NoRet EXCEPT !.value = numTypes]
  /\ UNCHANGED <<maxParticles, particles, nextParticleIndex, autoRemoveInactive,
                 inactiveIndices, initialized, particleCount, boundary,
                 enableBounds, ticks, input, fault>>
  /\ UNCHANGED <<timeAccumulator, call, interactionLUT, treeVars>>

\* Particle::setNumParticleTypes(num)
SetNumParticleTypes(num) ==
  /\ fault = "none"
  /\ numParticleTypes' = num
  /\ interactionMatrix' \in initInteractionMatrix(num)
  /\ op' = "setNumParticleTypes"
  /\ ret' = [NoRet EXCEPT !.value = num]
  /\ UNCHANGED <<maxParticles, particles, nextParticleIndex, autoRemoveInactive,
                 inactiveIndices, initialized, particleCount, boundary,
                 enableBounds, ticks, input, fault>>
  /\ UNCHANGED <<timeAccumulator, call, interactionLUT, treeVars>>

\* Particle::randomizeInteractionMatrix(), called directly: it writes
\* interactionMatrix[i][j] for all i, j < numParticleTypes
RandomizeInteractionMatrix ==
  /\ fault = "none"
  /\ op' = "randomizeInteractionMatrix"
  /\ ret' = NoRet
  /\ IF \A i \in 0..(numParticleTypes - 1) : \A j \in 0..(numParticleTypes - 1) :
          CellStored(interactionMatrix, i, j)
     THEN /\ interactionMatrix' \in randomizeInteractionMatrix(numParticleTypes)
          /\ fault' = fault
     ELSE /\ interactionMatrix' = interactionMatrix
          /\ fault' = "out_of_bounds"
  /\ UNCHANGED <<maxParticles, particles, nextParticleIndex, autoRemoveInactive,
                 inactiveIndices, numParticleTypes, initialized, particleCount,
                 boundary, enableBounds, ticks, input>>
  /\ UNCHANGED <<timeAccumulator, call, interactionLUT, treeVars>>

\* Particle::setInteractionStrength(type1, type2, strength)
SetInteractionStrength(type1, type2, strength) ==
  /\ fault = "none"
  /\ op' = "setInteractionStrength"
  /\ ret' = [NoRet EXCEPT !.type1 = type1, !.type2 = type2, !.value = strength]
  /\ IF ~TypesInRange(numParticleTypes, type1, type2)
     THEN UNCHANGED <<interactionMatrix, fault>>
     ELSE IF CellStored(interactionMatrix, type1, type2)
          THEN /\ interactionMatrix' =
                    [interactionMatrix EXCEPT ![type1 + 1][type2 + 1] = strength]
               /\ fault' = fault
          ELSE /\ interactionMatrix' = interactionMatrix
               /\ fault' = "out_of_bounds"
  /\ UNCHANGED <<maxParticles, particles, nextParticleIndex, autoRemoveInactive,
                 inactiveIndices, numParticleTypes, initialized, particleCount,
                 boundary, enableBounds, ticks, input>>
  /\ UNCHANGED <<timeAccumulator, call, interactionLUT, treeVars>>

\* Particle::getInteractionStrength(type1, type2); ret.value is what the
\* call returns when the read is inside the stored table
GetInteractionStrength(type1, type2) ==
  /\ fault = "none"
  /\ op' = "getInteractionStrength"
  /\ IF readOutOfBounds(interactionMatrix, numParticleTypes, type1, type2)
     THEN /\ ret' = [NoRet EXCEPT !.type1 = type1, !.type2 = type2]
          /\ fault' = "out_of_bounds"
     ELSE /\ ret' = [NoRet EXCEPT !.type1 = type1, !.type2 = type2,
                       !.value = getInteractionStrength(interactionMatrix,
                                   numParticleTypes, type1, type2)]
          /\ fault' = fault
  /\ UNCHANGED <<maxParticles, particles, nextParticleIndex, autoRemoveInactive,
                 inactiveIndices, interactionMatrix, numParticleTypes,
                 initialized, particleCount, boundary, enableBounds, ticks, input>>
  /\ UNCHANGED <<timeAccumulator, call, interactionLUT, treeVars>>

\* Particle::cleanupSharedResources(): clears the table, leaves
\* numParticleTypes as it is
CleanupSharedResources ==
  /\ fault = "none"
  /\ op' = "cleanupSharedResources"
  /\ ret' = NoRet
  /\ IF initialized
     THEN /\ interactionMatrix' = <<>>
          /\ initialized' = FALSE
          /\ particleCount' = 0
     ELSE UNCHANGED <<interactionMatrix, initialized, particleCount>>
  /\ UNCHANGED <<maxParticles, particles, nextParticleIndex, autoRemoveInactive,
                 inactiveIndices, numParticleTypes, boundary, enableBounds,
                 ticks, input, fault>>
  /\ UNCHANGED <<timeAccumulator, call, interactionLUT, treeVars>>

\* Particle::initializeSharedResources(), called directly
InitializeSharedResources ==
  /\ fault = "none"
  /\ op' = "initializeSharedResources"
  /\ ret' = NoRet
  /\ interactionMatrix' \in initInteractionMatrix(numParticleTypes)
  /\ initialized' = TRUE
  /\ UNCHANGED <<maxParticles, particles, nextParticleIndex, autoRemoveInactive,
                 inactiveIndices, numParticleTypes, particleCount, boundary,
                 enableBounds, ticks, input, fault>>
  /\ UNCHANGED <<timeAccumulator, call, interactionLUT, treeVars>>

-----------------------------------------------------------------------------
(* The particle store: createParticle, setActive, update, clear *)

Next ==
  \/ \E elapsed \in BOOLEAN, garbage \in GarbageInts : CreateParticle(elapsed, garbage)
  \/ \E i \in 0..(MaxCap - 1), active \in BOOLEAN : SetActive(i, active)
  \/ \E value \in BOOLEAN : SetAutoRemoveInactive(value)
  \/ \E deltaTime \in DeltaTimes : Update(deltaTime)
  \/ Clear

Spec == Init /\ [][Next]_vars

-----------------------------------------------------------------------------
(* The interaction matrix over its lifetime, with an empty store *)

InitMatrix == Init /\ maxParticles = 1

NextMatrix ==
  \/ \E numTypes \in TypeCounts : InitInteractionMatrix(numTypes)
  \/ \E num \in TypeCounts : SetNumParticleTypes(num)
  \/ RandomizeInteractionMatrix
  \/ \E type1 \in TypeArgs, type2 \in TypeArgs, strength \in SetVals :
       SetInteractionStrength(type1, type2, strength)
  \/ \E type1 \in TypeArgs, type2 \in TypeArgs : GetInteractionStrength(type1, type2)
  \/ CleanupSharedResources
  \/ InitializeSharedResources
  \/ Clear

SpecMatrix == InitMatrix /\ [][NextMatrix]_vars

-----------------------------------------------------------------------------
(* The force kernels on placed particles: two or three particles that were
   created, placed (setPos), typed (setType) and possibly deactivated, with a
   two-type matrix set entry by entry *)

\* positions in steps of 1/FP: coincident, closer than the minimum distance,
\* exactly at it, just inside the cutoff, exactly at it, in neighbouring and
\* in distant cells of the grid, and left of the boundary
Anchors == {<<0, 0>>, <<5999, 0>>}

Places ==
  Anchors \cup {<<100, 0>>, <<150, 50>>, <<6000, 0>>, <<9000, 0>>,
                <<3000, 6500>>, <<-3000, -100>>}

Triples ==
  {<<<<0, 0>>, <<150, 50>>, <<5999, 0>>>>,
   <<<<5999, 0>>, <<9000, 0>>, <<6000, 0>>>>,
   <<<<0, 0>>, <<3000, 6500>>, <<100, 0>>>>}

\* the types in use after setNumParticleTypes(2)
PlacedTypes == {0, 1}

\* matrices with a fixed diagonal and strength[0][1] = 1: one symmetric, one
\* asymmetric
PlacedMatrices ==
  {m \in [1..Cardinality(PlacedTypes) ->
             [1..Cardinality(PlacedTypes) -> RandVals]] :
     m[1][1] = FP /\ m[2][2] = -FP /\ m[1][2] = FP}

\* the velocity a particle had when it was deactivated
DriftVelocity == <<2 * FP, -FP>>

\* a particle after setPos, setType and, for an inactive one, setVel and
\* setActive(false)
Placed(pos, type, active) ==
  [position |-> pos,
   velocity |-> IF active THEN <<0, 0>> ELSE DriftVelocity,
   radius |-> DefaultRadius, active |-> active, particleType |-> type]

PlacedParticles ==
  {<<Placed(a, s, TRUE), Placed(b, t, act)>> :
     a \in Anchors, b \in Places, s \in PlacedTypes,
     t \in PlacedTypes, act \in BOOLEAN}
  \cup
  {<<Placed(tr[1], s, TRUE), Placed(tr[2], t, act), Placed(tr[3], s, TRUE)>> :
     tr \in Triples, s \in PlacedTypes,
     t \in PlacedTypes, act \in BOOLEAN}

InitForce ==
  /\ particles \in PlacedParticles
  /\ maxParticles = Len(particles)
  /\ nextParticleIndex = 0
  /\ autoRemoveInactive \in BOOLEAN
  /\ inactiveIndices = <<>>
  /\ numParticleTypes = Cardinality(PlacedTypes)
  /\ interactionMatrix \in PlacedMatrices
  /\ initialized = TRUE
  /\ particleCount = Len(particles)
  /\ boundary = DefaultBoundary
  /\ enableBounds = FALSE
  /\ ticks = 0
  /\ input = NoInput
  /\ op = "init"
  /\ ret = NoRet
  /\ fault = "none"
  /\ timeAccumulator = 0
  /\ call = Idle
  /\ interactionLUT = NoLUT
  /\ bodies = <<>>
  /\ inserted = <<>>
  /\ quadtree = NoQuadtree
  /\ optimizedQuadtree = NoOptimizedQuadtree

NextForce ==
  \/ \E deltaTime \in DeltaTimes : Update(deltaTime)
  \/ \E deltaTime \in DeltaTimes : SimplifiedForceCalculation(deltaTime)
  \/ \E deltaTime \in DeltaTimes : CalculateInteractionForces(deltaTime)

SpecForce == InitForce /\ [][NextForce]_vars

-----------------------------------------------------------------------------
(* Particle::calculateForce as a function of its two arguments: the inputs
   are drawn at the start, each build of the function is applied to them *)

\* the largest r_norm drawn, in steps of 1/FP (1.2: past the end of the
\* attraction lobe at 1.0)
MaxRNorm == 120

RNorms == 0..MaxRNorm

Strengths == {-FP, -(FP \div 2), 0, FP \div 4, FP}

InitLaw ==
  /\ input \in RNorms \X Strengths
  /\ maxParticles = 1
  /\ particles = <<>>
  /\ nextParticleIndex = 0
  /\ autoRemoveInactive = TRUE
  /\ inactiveIndices = <<>>
  /\ numParticleTypes \in InitTypeCounts
  /\ interactionMatrix = ZeroMatrix(numParticleTypes)
  /\ initialized = TRUE
  /\ particleCount = 0
  /\ boundary = DefaultBoundary
  /\ enableBounds = FALSE
  /\ ticks = 0
  /\ op = "init"
  /\ ret = NoRet
  /\ fault = "none"
  /\ timeAccumulator = 0
  /\ call = Idle
  /\ interactionLUT = NoLUT
  /\ bodies = <<>>
  /\ inserted = <<>>
  /\ quadtree = NoQuadtree
  /\ optimizedQuadtree = NoOptimizedQuadtree

\* one call of a build of calculateForce on the drawn (r_norm, a)
Evaluate(name, value) ==
  /\ fault = "none"
  /\ op' = name
  /\ ret' = [NoRet EXCEPT !.value = value]
  /\ UNCHANGED <<maxParticles, particles, nextParticleIndex, autoRemoveInactive,
                 inactiveIndices, interactionMatrix, numParticleTypes,
                 initialized, particleCount, boundary, enableBounds, ticks,
                 input, fault>>
  /\ UNCHANGED <<timeAccumulator, call, interactionLUT, treeVars>>

\* Particle::calculateForce(r_norm, a) as built for the CPU kernels
CalculateForce == Evaluate("calculateForce", calculateForce(input[1], input[2]))

\* Particle::calculateForce(r_norm, a), the build without NEON
CalculateForceScalar ==
  Evaluate("calculateForceScalar", calculateForceScalar(input[1], input[2]))

\* calculateForce(r_norm, a) of the compute shader
CalculateForceGlsl ==
  Evaluate("calculateForceGlsl", calculateForceGlsl(input[1], input[2]))

NextLaw ==
  \/ CalculateForce
  \/ CalculateForceScalar
  \/ CalculateForceGlsl

SpecLaw == InitLaw /\ [][NextLaw]_vars

-----------------------------------------------------------------------------
(* The integrator at the boundary: one particle that was created, placed
   (setPos) and given a velocity (setVel), with the boundaries switched on
   and off from the settings panel *)

\* the half extents of DefaultBoundary less the radius are 85 and 55 units:
\* positions inside, exactly at, and beyond the bound on each axis
EdgeXs == {-(90 * FP), 0, 84 * FP, 85 * FP, 86 * FP}

EdgeYs == {-(56 * FP), 0, 55 * FP}

\* velocities in units per second: at rest, toward and away from the bounds
EdgeVelocities ==
  {<<0, 0>>, <<100 * FP, 0>>, <<-(100 * FP), 50 * FP>>, <<100 * FP, -(50 * FP)>>}

\* a particle after setPos and setVel
Moving(pos, vel) ==
  [position |-> pos, velocity |-> vel, radius |-> DefaultRadius,
   active |-> TRUE, particleType |-> 0]

\* the "Enable Boundaries" checkbox
SetEnableBounds(value) ==
  /\ fault = "none"
  /\ enableBounds' = value
  /\ op' = "setEnableBounds"
  /\ ret' = NoRet
  /\ UNCHANGED <<maxParticles, particles, nextParticleIndex, autoRemoveInactive,
                 inactiveIndices, interactionMatrix, numParticleTypes,
                 initialized, particleCount, boundary, ticks, input, fault>>
  /\ UNCHANGED <<timeAccumulator, call, interactionLUT, treeVars>>

InitBounds ==
  /\ particles \in {<<Moving(<<x, y>>, v)>> :
                      x \in EdgeXs, y \in EdgeYs, v \in EdgeVelocities}
  /\ maxParticles = 1
  /\ nextParticleIndex = 0
  /\ autoRemoveInactive = TRUE
  /\ inactiveIndices = <<>>
  /\ numParticleTypes \in InitTypeCounts
  /\ interactionMatrix \in initInteractionMatrix(numParticleTypes)
  /\ initialized = TRUE
  /\ particleCount = 1
  /\ boundary = DefaultBoundary
  /\ enableBounds = TRUE
  /\ ticks = 0
  /\ input = NoInput
  /\ op = "init"
  /\ ret = NoRet
  /\ fault = "none"
  /\ timeAccumulator = 0
  /\ call = Idle
  /\ interactionLUT = NoLUT
  /\ bodies = <<>>
  /\ inserted = <<>>
  /\ quadtree = NoQuadtree
  /\ optimizedQuadtree = NoOptimizedQuadtree

NextBounds ==
  \/ \E deltaTime \in DeltaTimes : Update(deltaTime)
  \/ \E value \in BOOLEAN : SetEnableBounds(value)

SpecBounds == InitBounds /\ [][NextBounds]_vars

-----------------------------------------------------------------------------
(* Two particles at rest inside the repulsion core: created, typed and placed
   0.5 * BETA * R_MAX apart along an axis, under every two-type matrix a
   caller can set *)

\* 0.5 * BETA * R_MAX, in position steps
CoreDistance == (BETA * R_MAX) \div 2

CoreOffsets ==
  {<<CoreDistance, 0>>, <<-CoreDistance, 0>>, <<0, CoreDistance>>, <<0, -CoreDistance>>}

CoreMatrices == [1..Cardinality(PlacedTypes) -> [1..Cardinality(PlacedTypes) -> SetVals]]

InitCore ==
  /\ particles \in {<<[Moving(<<0, 0>>, <<0, 0>>) EXCEPT !.particleType = s],
                      [Moving(off, <<0, 0>>) EXCEPT !.particleType = t]>> :
                      off \in CoreOffsets, s \in PlacedTypes, t \in PlacedTypes}
  /\ maxParticles = Len(particles)
  /\ nextParticleIndex = 0
  /\ autoRemoveInactive = TRUE
  /\ inactiveIndices = <<>>
  /\ numParticleTypes = Cardinality(PlacedTypes)
  /\ interactionMatrix \in CoreMatrices
  /\ initialized = TRUE
  /\ particleCount = Len(particles)
  /\ boundary = DefaultBoundary
  /\ enableBounds = FALSE
  /\ ticks = 0
  /\ input = NoInput
  /\ op = "init"
  /\ ret = NoRet
  /\ fault = "none"
  /\ timeAccumulator = 0
  /\ call = Idle
  /\ interactionLUT = NoLUT
  /\ bodies = <<>>
  /\ inserted = <<>>
  /\ quadtree = NoQuadtree
  /\ optimizedQuadtree = NoOptimizedQuadtree

NextCore == \E deltaTime \in DeltaTimes : Update(deltaTime)

SpecCore == InitCore /\ [][NextCore]_vars

-----------------------------------------------------------------------------
(* The grid kernel under the boundary sliders of the settings window: three
   placed particles, the four boundaries dragged within the sliders' range *)

\* the ends of the sliders' range, -WINDOW_WIDTH / 2 .. WINDOW_WIDTH / 2 and
\* -WINDOW_HEIGHT / 2 .. WINDOW_HEIGHT / 2
DragEnds ==
  [left |-> (WorldCellsX * gridCellSize) \div 2,
   right |-> (WorldCellsX * gridCellSize) \div 2,
   top |-> (WorldCellsY * gridCellSize) \div 2,
   bottom |-> (WorldCellsY * gridCellSize) \div 2]

\* ImGui::DragFloat on one of the four boundaries
DragBoundary(side, value) ==
  /\ fault = "none"
  /\ enableBounds
  /\ boundary[side] # value
  /\ boundary' = [boundary EXCEPT ![side] = value]
  /\ op' = "dragBoundary"
  /\ ret' = NoRet
  /\ UNCHANGED <<maxParticles, particles, nextParticleIndex, autoRemoveInactive,
                 inactiveIndices, interactionMatrix, numParticleTypes,
                 initialized, particleCount, enableBounds, ticks, input, fault>>
  /\ UNCHANGED <<timeAccumulator, call, interactionLUT, treeVars>>

InitGrid ==
  /\ particles \in
       {<<Placed(tr[1], 0, TRUE), Placed(tr[2], t, act), Placed(tr[3], 0, TRUE)>> :
          tr \in Triples, t \in PlacedTypes, act \in BOOLEAN}
  /\ maxParticles = Len(particles)
  /\ nextParticleIndex = 0
  /\ autoRemoveInactive = FALSE
  /\ inactiveIndices = <<>>
  /\ numParticleTypes = Cardinality(PlacedTypes)
  /\ interactionMatrix \in {m \in PlacedMatrices : m[2][1] = -FP}
  /\ initialized = TRUE
  /\ particleCount = Len(particles)
  /\ boundary = DefaultBoundary
  /\ enableBounds = TRUE
  /\ ticks = 0
  /\ input = NoInput
  /\ op = "init"
  /\ ret = NoRet
  /\ fault = "none"
  /\ timeAccumulator = 0
  /\ call = Idle
  /\ interactionLUT = NoLUT
  /\ bodies = <<>>
  /\ inserted = <<>>
  /\ quadtree = NoQuadtree
  /\ optimizedQuadtree = NoOptimizedQuadtree

NextGrid ==
  \/ \E deltaTime \in DeltaTimes : CalculateInteractionForces(deltaTime)
  \/ \E side \in DOMAIN DragEnds : \E value \in {-DragEnds[side], DragEnds[side]} :
       DragBoundary(side, value)

SpecGrid == InitGrid /\ [][NextGrid]_vars

-----------------------------------------------------------------------------
(* update, the two kernels and Particle::updateAll step by step: the loops'
   iterations are the steps.  A parallel loop runs its iterations in any
   order and interleaves the parts of Particle::update; a sequential loop
   runs them in index order.  Every step records the locations it reads and
   writes. *)

\* the accesses of one worker to a set of locations <<field, index>>
\* (index -1: the object as a whole)
Access(worker, write, locs) ==
  {[worker |-> worker, write |-> write, loc |-> l] : l \in locs}

\* the kernel a call runs
kernelOf(name, n) ==
  IF name = "update" THEN kernelFor(n)
  ELSE IF name = "calculateInteractionForces" THEN "grid"
  ELSE IF name = "simplifiedForceCalculation" THEN "simplified"
  ELSE "none"

\* the iterations of the kernel's two parallel loops: the grid kernel loops
\* over activeParticles, the all-pairs kernel over 0 .. n-1
workersOf(kernel, ps) ==
  IF kernel = "grid" THEN {i \in 0..(Len(ps) - 1) : ps[i + 1].active}
  ELSE 0..(Len(ps) - 1)

\* whether the integration loop of the call is the parallel one
parallelUpdate(name, n) == name = "updateAll" \/ n > BATCH_SIZE

\* the end of a parallel loop with the barrier left out (nowait)
loopJoined_nowait(pending) == TRUE

\* the implicit barrier at the end of a parallel loop, and the end of a
\* sequential one: the next phase starts when no iteration is left
loopJoined(pending) == pending = {}

\* a force loop whose iteration also adds the opposite term to the
\* neighbours' slots
forceWrites_pairwise(i, near) == {<<"forceBuffer", i>>} \cup {<<"forceBuffer", j>> : j \in near}

\* the slots an iteration of the force loop writes
forceWrites(i, near) == {<<"forceBuffer", i>>}

\* the locations iteration i of the force loop reads: visited are the indices
\* met by its scan, near those whose term it adds
forceReads(kernel, i, visited, near) ==
  (IF kernel = "grid"
   THEN {<<"activeParticles", -1>>, <<"position", i>>, <<"particleType", i>>,
         <<"cellX", i>>, <<"cellY", i>>, <<"grid", -1>>}
        \cup {<<"position", j>> : j \in visited}
        \cup {<<"active", j>> : j \in visited \ {i}}
        \cup {<<"particleType", j>> : j \in near}
   ELSE {<<"particleData", i>>} \cup {<<"particleData", j>> : j \in visited})
  \cup (IF near = {} THEN {} ELSE {<<"interactionMatrix", -1>>})

\* the locations iteration i of the apply loop reads
applyReads(kernel, i, active) ==
  (IF kernel = "grid" THEN {<<"activeParticles", -1>>} ELSE {<<"particleData", i>>})
  \cup (IF active THEN {<<"velocity", i>>, <<"forceBuffer", i>>} ELSE {})

\* the start of a call: populateSpatialGrid and the allocation of forceBuffer
\* (grid kernel) or the copy into particleData (all-pairs kernel) run on the
\* calling thread before the first parallel loop
BeginCall(name, deltaTime) ==
  /\ fault = "none"
  /\ call.phase = "idle"
  /\ ticks < MaxTicks
  /\ LET kernel == kernelOf(name, Len(particles))
         bad == forceFault(kernel, particles, interactionMatrix, numParticleTypes,
                           boundary, scanOf(kernel, particles, boundary))
     IN  IF bad # "none"
         THEN /\ fault' = bad
              /\ op' = name
              /\ ret' = NoRet
              /\ call' = call
         ELSE /\ call' = [name |-> name,
                          phase |-> IF kernel = "none" THEN "integrate" ELSE "force",
                          deltaTime |-> deltaTime,
                          atStart |-> particles,
                          accAtStart |-> timeAccumulator,
                          pairs |-> [k \in 1..Len(particles) |-> <<>>],
                          forceBuffer |-> [k \in 1..Len(particles) |-> <<0, 0>>],
                          pending |-> workersOf(kernel, particles),
                          computed |-> {},
                          applied |-> {},
                          loaded |-> [k \in 1..Len(particles) |-> -1],
                          accesses |-> {},
                          refreshed |-> {}]
              /\ UNCHANGED <<op, ret, fault>>
  /\ UNCHANGED <<maxParticles, particles, nextParticleIndex, autoRemoveInactive,
                 inactiveIndices, interactionMatrix, numParticleTypes,
                 initialized, particleCount, boundary, enableBounds, ticks,
                 input, timeAccumulator, interactionLUT, treeVars>>

\* what the steps of a call leave alone
CallFrame ==
  UNCHANGED <<maxParticles, nextParticleIndex, autoRemoveInactive,
              inactiveIndices, interactionMatrix, numParticleTypes,
              initialized, particleCount, boundary, enableBounds, input,
              interactionLUT, treeVars>>

\* iteration i of the force loop: computeInteractionForcesOMP reads the
\* particles and the grid, simplifiedForceCalculation reads particleData
ComputeForce(i) ==
  /\ fault = "none"
  /\ call.phase = "force"
  /\ i \in call.pending
  /\ LET kernel == kernelOf(call.name, Len(particles))
         src == IF kernel = "grid" THEN particles ELSE call.atStart
         skipped == kernel # "grid" /\ ~src[i + 1].active
         g == populateSpatialGrid(call.atStart, boundary)
         visited == IF kernel = "grid"
                    THEN visitedFrom(g, boundary, <<g.cellX[i + 1], g.cellY[i + 1]>>, 1)
                    ELSE IF skipped THEN <<>> ELSE Indices(Len(src))
         near == IF kernel = "grid"
                 THEN SelectSeq(visited, LAMBDA j : shouldComputeForce(src, i, j))
                 ELSE simplifiedPairs(src, i)
         total == SumTerms(src, interactionMatrix, numParticleTypes, i, near)
     IN  call' = [call EXCEPT
                    !.pending = @ \ {i},
                    !.computed = @ \cup {i},
                    !.pairs[i + 1] = near,
                    !.forceBuffer[i + 1] =
                      IF skipped THEN @ ELSE <<total[1] * R_MAX, total[2] * R_MAX>>,
                    !.accesses = @
                      \cup Access(i, FALSE, forceReads(kernel, i, Range(visited), Range(near)))
                      \cup (IF skipped THEN {}
                            ELSE Access(i, TRUE, forceWrites(i, Range(near))))]
  /\ UNCHANGED <<particles, ticks, timeAccumulator, op, ret, fault>>
  /\ CallFrame

\* the end of the force loop
EndForce ==
  /\ fault = "none"
  /\ call.phase = "force"
  /\ loopJoined(call.pending)
  /\ call' = [call EXCEPT
                !.phase = "apply",
                !.pending = workersOf(kernelOf(call.name, Len(particles)), particles),
                !.accesses = {}]
  /\ UNCHANGED <<particles, ticks, timeAccumulator, op, ret, fault>>
  /\ CallFrame

\* iteration i of the apply loop (applyForcesOMP, and the second loop of
\* simplifiedForceCalculation)
ApplyForce(i) ==
  /\ fault = "none"
  /\ call.phase = "apply"
  /\ i \in call.pending
  /\ LET kernel == kernelOf(call.name, Len(particles))
         active == IF kernel = "grid" THEN TRUE ELSE call.atStart[i + 1].active
     IN  /\ particles' =
              IF active
              THEN [particles EXCEPT
                      ![i + 1] = applyForce(@, call.forceBuffer[i + 1], call.deltaTime)]
              ELSE particles
         /\ call' = [call EXCEPT
                       !.pending = @ \ {i},
                       !.applied = @ \cup {i},
                       !.accesses = @
                         \cup Access(i, FALSE, applyReads(kernel, i, active))
                         \cup (IF active THEN Access(i, TRUE, {<<"velocity", i>>}) ELSE {})]
  /\ UNCHANGED <<ticks, timeAccumulator, op, ret, fault>>
  /\ CallFrame

\* what a finished call leaves in the observations
Finish(name, after) ==
  /\ op' = name
  /\ ret' = [NoRet EXCEPT !.pairs = call.pairs, !.deltaTime = call.deltaTime]
  /\ ticks' = IF after = call.atStart THEN ticks ELSE ticks + 1
  /\ fault' = fault

\* the end of the apply loop: a kernel called directly returns, update goes
\* on to its integration loop
EndApply ==
  /\ fault = "none"
  /\ call.phase = "apply"
  /\ loopJoined(call.pending)
  /\ IF call.name = "update"
     THEN /\ call' = [call EXCEPT !.phase = "integrate",
                                  !.pending = 0..(Len(particles) - 1),
                                  !.accesses = {}]
          /\ UNCHANGED <<op, ret, ticks, fault>>
     ELSE /\ call' = [call EXCEPT !.phase = "idle", !.pending = {}]
          /\ Finish(call.name, particles)
  /\ UNCHANGED <<particles, timeAccumulator>>
  /\ CallFrame

\* whether iteration i of the integration loop may run now
mayRun(i) ==
  /\ call.phase = "integrate"
  /\ i \in call.pending
  /\ parallelUpdate(call.name, Len(particles)) \/ \A j \in call.pending : i <= j

\* Particle::update on slot i up to the read of timeAccumulator in
\* "timeAccumulator += deltaTime": an inactive particle returns at once
UpdateMove(i) ==
  /\ fault = "none"
  /\ mayRun(i)
  /\ call.loaded[i + 1] = -1
  /\ IF ~particles[i + 1].active
     THEN /\ call' = [call EXCEPT
                        !.pending = @ \ {i},
                        !.accesses = @ \cup Access(i, FALSE, {<<"active", i>>})]
          /\ UNCHANGED particles
     ELSE /\ particles' =
               [particles EXCEPT
                  ![i + 1] = particleUpdate(@, boundary, enableBounds, call.deltaTime)]
          /\ call' = [call EXCEPT
                        !.loaded[i + 1] = timeAccumulator,
                        !.accesses = @
                          \cup Access(i, FALSE,
                                 {<<"active", i>>, <<"position", i>>, <<"velocity", i>>,
                                  <<"radius", i>>, <<"timeAccumulator", -1>>})
                          \cup Access(i, TRUE, {<<"position", i>>, <<"velocity", i>>})]
  /\ UNCHANGED <<ticks, timeAccumulator, op, ret, fault>>
  /\ CallFrame

\* the write of "timeAccumulator += deltaTime"
UpdateAccumulate(i) ==
  /\ fault = "none"
  /\ mayRun(i)
  /\ call.loaded[i + 1] >= 0
  /\ timeAccumulator' = call.loaded[i + 1] + call.deltaTime
  /\ call' = [call EXCEPT
                !.loaded[i + 1] = -2,
                !.accesses = @ \cup Access(i, TRUE, {<<"timeAccumulator", -1>>})]
  /\ UNCHANGED <<particles, ticks, op, ret, fault>>
  /\ CallFrame

\* "if (timeAccumulator >= 0.016666667F) { updateInstanceData();
\* timeAccumulator = 0.0F; }" and the return
UpdateRefresh(i) ==
  /\ fault = "none"
  /\ mayRun(i)
  /\ call.loaded[i + 1] = -2
  /\ LET due == timeAccumulator >= FrameTime
     IN  /\ timeAccumulator' = IF due THEN 0 ELSE timeAccumulator
         /\ call' = [call EXCEPT
                       !.pending = @ \ {i},
                       !.loaded[i + 1] = -1,
                       !.refreshed = IF due THEN @ \cup {i} ELSE @,
                       !.accesses = @
                         \cup Access(i, FALSE, {<<"timeAccumulator", -1>>})
                         \cup (IF due
                               THEN Access(i, TRUE, {<<"instanceData", i>>,
                                                     <<"timeAccumulator", -1>>})
                               ELSE {})]
  /\ UNCHANGED <<particles, ticks, op, ret, fault>>
  /\ CallFrame

\* the end of the integration loop; update then erases the inactive
\* particles when autoRemoveInactive is set
EndUpdate ==
  /\ fault = "none"
  /\ call.phase = "integrate"
  /\ loopJoined(call.pending)
  /\ particles' = IF call.name = "update" /\ autoRemoveInactive
                  THEN removeInactive(particles) ELSE particles
  /\ call' = [call EXCEPT !.phase = "idle", !.pending = {}]
  /\ Finish(call.name, particles')
  /\ UNCHANGED timeAccumulator
  /\ CallFrame

\* the slots of the scenes
Slots == 0..2

CallNames ==
  {"update", "calculateInteractionForces", "simplifiedForceCalculation", "updateAll"}

InitPhases ==
  /\ particles \in
       {<<Placed(tr[1], 0, TRUE), Placed(tr[2], 1, act), Placed(tr[3], 0, TRUE)>> :
          tr \in Triples, act \in BOOLEAN}
  /\ maxParticles = Len(particles)
  /\ nextParticleIndex = 0
  /\ autoRemoveInactive = TRUE
  /\ inactiveIndices = <<>>
  /\ numParticleTypes = Cardinality(PlacedTypes)
  /\ interactionMatrix \in {m \in PlacedMatrices : m[2][1] = -FP}
  /\ initialized = TRUE
  /\ particleCount = Len(particles)
  /\ boundary = DefaultBoundary
  /\ enableBounds = FALSE
  /\ ticks = 0
  /\ input = NoInput
  /\ timeAccumulator = 0
  /\ call = Idle
  /\ interactionLUT = NoLUT
  /\ bodies = <<>>
  /\ inserted = <<>>
  /\ quadtree = NoQuadtree
  /\ optimizedQuadtree = NoOptimizedQuadtree
  /\ op = "init"
  /\ ret = NoRet
  /\ fault = "none"

NextPhases ==
  \/ \E name \in CallNames : \E deltaTime \in DeltaTimes : BeginCall(name, deltaTime)
  \/ \E i \in Slots : ComputeForce(i)
  \/ EndForce
  \/ \E i \in Slots : ApplyForce(i)
  \/ EndApply
  \/ \E i \in Slots : UpdateMove(i)
  \/ \E i \in Slots : UpdateAccumulate(i)
  \/ \E i \in Slots : UpdateRefresh(i)
  \/ EndUpdate

SpecPhases == InitPhases /\ [][NextPhases]_vars

-----------------------------------------------------------------------------
(* The calculateInteractionForces kept in src/Test.md: a grid kernel of its
   own constants that reads the strengths through the function-static
   interactionLUT, filled on the first call *)

\* const float R_MAX = 100.0F of that kernel, in units; gridCellSize = R_MAX
lutR_MAX == 100

lutCellSize == lutR_MAX * FP

lutR_MAX_SQR == (lutR_MAX * FP) * (lutR_MAX * FP)

\* MIN_DIST_SQR = 4.0F
lutMIN_DIST_SQR == 4 * FP * FP

DAMPING == (97 * FP) \div 100

MAX_FORCE == 1000 * FP

SMOOTH_FACTOR == (3 * FP) \div 10

MAX_DELTA_V == 100 * FP

\* ParticleSystem::previousForces: declared and defined, resized nowhere
previousForces == <<>>

\* the table the first call fills: interactionLUT[i][j] =
\* getInteractionStrength(i, j) for all i, j < MAX_PARTICLE_TYPES
filledLUT(m, n) ==
  [lutInitialized |-> TRUE,
   table |-> [i \in 0..(MAX_PARTICLE_TYPES - 1) |->
               [j \in 0..(MAX_PARTICLE_TYPES - 1) |->
                  getInteractionStrength(m, n, i, j)]]]

\* the table a call works with: filled only if (!lutInitialized)
lutOnCall(lut, m, n) == IF ~lut.lutInitialized THEN filledLUT(m, n) ELSE lut

\* the strength the kernel uses for (type_i, type_j); the table is indexed
\* whenever both types are below MAX_PARTICLE_TYPES
lutInteraction(lut, m, n, type_i, type_j) ==
  IF type_i < MAX_PARTICLE_TYPES /\ type_j < MAX_PARTICLE_TYPES
  THEN lut.table[type_i][type_j]
  ELSE getInteractionStrength(m, n, type_i, type_j)

lutGridWidth(b) == Ceil(b.right - b.left, lutCellSize)

lutGridHeight(b) == Ceil(b.bottom - b.top, lutCellSize)

\* particleCellIndices[i] for an active particle at pos
lutCellIndex(b, pos) ==
  (clamp(TDiv(pos[2] - b.top, lutCellSize), 0, lutGridHeight(b) - 1) * lutGridWidth(b))
  + clamp(TDiv(pos[1] - b.left, lutCellSize), 0, lutGridWidth(b) - 1)

\* the cell lists: active indices in ascending order
lutGrid(ps, b) ==
  [c \in 0..((lutGridWidth(b) * lutGridHeight(b)) - 1) |->
     SelectSeq(Indices(Len(ps)),
               LAMBDA i : ps[i + 1].active /\ lutCellIndex(b, ps[i + 1].position) = c)]

RECURSIVE lutVisitedFrom(_, _, _, _)
\* the indices met by the scan around the cell of index c, offsets k..9
lutVisitedFrom(g, b, c, k) ==
  IF k > Len(Offsets) THEN <<>>
  ELSE LET nx == (c % lutGridWidth(b)) + Offsets[k][1]
           ny == (c \div lutGridWidth(b)) + Offsets[k][2]
           rest == lutVisitedFrom(g, b, c, k + 1)
       IN  IF ny < 0 \/ ny >= lutGridHeight(b) \/ nx < 0 \/ nx >= lutGridWidth(b)
           THEN rest
           ELSE g[(ny * lutGridWidth(b)) + nx] \o rest

\* glm::dot(distVec, distVec), held at the cutoff beyond it
lutDot(d) ==
  IF Abs(d[1]) >= lutCellSize \/ Abs(d[2]) >= lutCellSize THEN lutR_MAX_SQR
  ELSE (d[1] * d[1]) + (d[2] * d[2])

\* the neighbours whose term is added to active particle i's total
lutPairs(ps, b, i) ==
  SelectSeq(lutVisitedFrom(lutGrid(ps, b), b, lutCellIndex(b, ps[i + 1].position), 1),
            LAMBDA j : /\ ~(i = j \/ ~ps[j + 1].active)
                       /\ LET distSqr == lutDot(distVecOf(ps, i, j))
                          IN  ~(distSqr < lutMIN_DIST_SQR \/ distSqr >= lutR_MAX_SQR))

lutNeighbours(ps, b) ==
  [k \in 1..Len(ps) |-> IF ps[k].active THEN lutPairs(ps, b, k - 1) ELSE <<>>]

\* distVec * (forceMag * invDist) with invDist = 1 / (sqrt(distSqr) + 0.1)
lutTerm(ps, i, j, interaction) ==
  LET distVec == distVecOf(ps, i, j)
      distSqr == lutDot(distVec)
      root == SqrtBetween(distSqr, 0, lutCellSize) + (FP \div 10)
      distance == TDiv(distSqr, root)
      normDist == TDiv(distance, lutR_MAX)
      forceMag == Min(calculateForce(normDist, interaction), MAX_FORCE)
  IN  <<TDiv(distVec[1] * forceMag, root), TDiv(distVec[2] * forceMag, root)>>

RECURSIVE lutSum(_, _, _, _, _, _)
lutSum(ps, lut, m, n, i, js) ==
  IF js = <<>> THEN <<0, 0>>
  ELSE LET j == Head(js)
           t == lutTerm(ps, i, j,
                        lutInteraction(lut, m, n, ps[i + 1].particleType,
                                       ps[j + 1].particleType))
           rest == lutSum(ps, lut, m, n, i, Tail(js))
       IN  <<t[1] + rest[1], t[2] + rest[2]>>

\* particleData.forces[i]: smoothed against previousForces[i] where that
\* exists, totalForce * R_MAX otherwise
lutForce(ps, lut, m, n, i, js) ==
  LET total == lutSum(ps, lut, m, n, i, js)
      scaled == <<total[1] * lutR_MAX, total[2] * lutR_MAX>>
  IN  IF i < Len(previousForces)
      THEN <<previousForces[i + 1][1]
               + Mul(scaled[1] - previousForces[i + 1][1], SMOOTH_FACTOR),
             previousForces[i + 1][2]
               + Mul(scaled[2] - previousForces[i + 1][2], SMOOTH_FACTOR)>>
      ELSE scaled

\* velocities[i] *= DAMPING; velocities[i] += deltaV, deltaV = forces[i] *
\* deltaTime cut to the length MAX_DELTA_V
lutApply(p, force, deltaTime) ==
  LET deltaV == <<TDiv(force[1] * deltaTime, 1000), TDiv(force[2] * deltaTime, 1000)>>
      long == Abs(deltaV[1]) > MAX_DELTA_V \/ Abs(deltaV[2]) > MAX_DELTA_V
              \/ (deltaV[1] * deltaV[1]) + (deltaV[2] * deltaV[2])
                   > MAX_DELTA_V * MAX_DELTA_V
      length == SqrtBetween((deltaV[1] * deltaV[1]) + (deltaV[2] * deltaV[2]),
                            0, 4 * MAX_DELTA_V)
      cut == IF long
             THEN <<TDiv(deltaV[1] * MAX_DELTA_V, length),
                    TDiv(deltaV[2] * MAX_DELTA_V, length)>>
             ELSE deltaV
  IN  [p EXCEPT !.velocity = <<Mul(p.velocity[1], DAMPING) + cut[1],
                               Mul(p.velocity[2], DAMPING) + cut[2]>>]

\* what goes wrong in a call, if anything: the grid as in the compiled
\* kernel, a strength read outside the stored matrix while the table is
\* filled, a negative type used as a table index
lutFault(ps, lut, m, n, b, pairs) ==
  IF lutGridWidth(b) * lutGridHeight(b) < 0 THEN "length_error"
  ELSE IF /\ (lutGridWidth(b) < 1 \/ lutGridHeight(b) < 1)
          /\ \E k \in 1..Len(ps) : ps[k].active
       THEN "out_of_bounds"
       ELSE IF /\ ~lut.lutInitialized
               /\ \E i \in 0..(MAX_PARTICLE_TYPES - 1) :
                    \E j \in 0..(MAX_PARTICLE_TYPES - 1) : readOutOfBounds(m, n, i, j)
            THEN "out_of_bounds"
            ELSE IF \E k \in 1..Len(ps) : \E x \in 1..Len(pairs[k]) :
                      \/ ps[k].particleType < 0
                      \/ ps[pairs[k][x] + 1].particleType < 0
                 THEN "out_of_bounds" ELSE "none"

\* the neighbour lists of a call: none when the grid cannot be built
lutScan(ps, b) ==
  IF lutGridWidth(b) < 1 \/ lutGridHeight(b) < 1
  THEN [k \in 1..Len(ps) |-> <<>>]
  ELSE lutNeighbours(ps, b)

\* the calculateInteractionForces(deltaTime) of src/Test.md
CalculateInteractionForcesLUT(deltaTime) ==
  /\ fault = "none"
  /\ op' = "calculateInteractionForcesLUT"
  /\ \E pairs \in {lutScan(particles, boundary)} :
     LET bad == lutFault(particles, interactionLUT, interactionMatrix,
                         numParticleTypes, boundary, pairs)
     IN  IF bad # "none"
         THEN /\ fault' = bad
              /\ ret' = NoRet
              /\ UNCHANGED <<particles, ticks, interactionLUT, treeVars>>
         ELSE \E lut \in {lutOnCall(interactionLUT, interactionMatrix, numParticleTypes)} :
              \E updated \in
                {[k \in 1..Len(particles) |->
                    IF ~particles[k].active THEN particles[k]
                    ELSE lutApply(particles[k],
                                  lutForce(particles, lut, interactionMatrix,
                                           numParticleTypes, k - 1, pairs[k]),
                                  deltaTime)]} :
                /\ updated = particles \/ ticks < MaxTicks
                /\ ticks' = IF updated = particles THEN ticks ELSE ticks + 1
                /\ particles' = updated
                /\ interactionLUT' = lut
                /\ UNCHANGED treeVars
                /\ ret' = [NoRet EXCEPT !.pairs = pairs, !.deltaTime = deltaTime]
                /\ fault' = fault
  /\ UNCHANGED <<maxParticles, nextParticleIndex, autoRemoveInactive,
                 inactiveIndices, interactionMatrix, numParticleTypes,
                 initialized, particleCount, boundary, enableBounds, input,
                 timeAccumulator, call>>

InitLUT ==
  /\ particles \in {<<Placed(<<0, 0>>, 0, TRUE), Placed(<<3000, 0>>, t, TRUE)>> :
                      t \in PlacedTypes}
  /\ maxParticles = Len(particles)
  /\ nextParticleIndex = 0
  /\ autoRemoveInactive = FALSE
  /\ inactiveIndices = <<>>
  /\ numParticleTypes = Cardinality(PlacedTypes)
  /\ interactionMatrix \in {m \in PlacedMatrices : m[2][1] = FP}
  /\ initialized = TRUE
  /\ particleCount = Len(particles)
  /\ boundary = DefaultBoundary
  /\ enableBounds = FALSE
  /\ ticks = 0
  /\ input = NoInput
  /\ timeAccumulator = 0
  /\ call = Idle
  /\ interactionLUT = NoLUT
  /\ bodies = <<>>
  /\ inserted = <<>>
  /\ quadtree = NoQuadtree
  /\ optimizedQuadtree = NoOptimizedQuadtree
  /\ op = "init"
  /\ ret = NoRet
  /\ fault = "none"

NextLUT ==
  \/ \E deltaTime \in DeltaTimes : CalculateInteractionForcesLUT(deltaTime)
  \/ \E type1 \in PlacedTypes : \E type2 \in PlacedTypes : \E strength \in RandVals :
       SetInteractionStrength(type1, type2, strength)
  \/ RandomizeInteractionMatrix
  \/ \E num \in {Cardinality(PlacedTypes) - 1, Cardinality(PlacedTypes)} :
       SetNumParticleTypes(num)

SpecLUT == InitLUT /\ [][NextLUT]_vars

-----------------------------------------------------------------------------
(* Claims about the particle store, checked under Spec *)

\* C1: the store never holds more than maxParticles particles, and every
\* createParticle call ends without a fault and returns the index of an
\* existing slot; a spawn that finds the store full with every slot active
\* returns an index below maxParticles.
C1_CreateReturnsExistingSlot ==
  /\ Len(particles) <= maxParticles
  /\ op = "createParticle" =>
       /\ fault = "none"
       /\ ret.index >= 0
       /\ ret.index < Len(particles)
       /\ (ret.full /\ ~ret.anyInactive) => ret.index < maxParticles

\* a spawn into a full store whose slots are all active has returned a slot
C1_Witness ==
  /\ op = "createParticle"
  /\ ret.full
  /\ ~ret.anyInactive
  /\ Len(particles) = maxParticles
  /\ ret.index < maxParticles

\* C2: when the store is full, createParticle returns a slot that was
\* inactive at the moment of the call whenever some slot was inactive (so it
\* returns an active slot only when every slot is active).
C2_FullStoreRecyclesInactive ==
  (op = "createParticle" /\ ret.full /\ ret.anyInactive) =>
    (fault = "none" /\ ~ret.wasActive)

\* C3: a createParticle call that finds the store full with every slot
\* active returns slot nextParticleIndex mod N and advances nextParticleIndex
\* by one.
C3_SaturatedRoundRobin ==
  (op = "createParticle" /\ ret.full /\ ~ret.anyInactive) =>
    /\ ret.index = ret.next % Len(particles)
    /\ nextParticleIndex = ret.next + 1

\* C10: update, createParticle and ParticleSystem::clear leave every entry
\* of the interaction matrix as it was.
C10_StoreOpsKeepMatrix ==
  [][op' \in {"update", "createParticle", "clear"} =>
       interactionMatrix' = interactionMatrix]_vars

-----------------------------------------------------------------------------
(* Claims about the interaction matrix, checked under SpecMatrix *)

\* C8: getInteractionStrength(type1, type2) returns 0 when either index is
\* outside [0, numParticleTypes) and the stored entry otherwise, and the
\* table is numParticleTypes x numParticleTypes whenever an in-range lookup
\* is made, so the read is in bounds.
C8_LookupTotalAndInBounds ==
  op = "getInteractionStrength" =>
    /\ fault = "none"
    /\ IF TypesInRange(numParticleTypes, ret.type1, ret.type2)
       THEN /\ Len(interactionMatrix) = numParticleTypes
            /\ \A i \in 1..numParticleTypes :
                 Len(interactionMatrix[i]) = numParticleTypes
            /\ ret.value = interactionMatrix[ret.type1 + 1][ret.type2 + 1]
       ELSE ret.value = 0

\* C9: after initInteractionMatrix(n) with n > 0 (directly or through
\* setNumParticleTypes) the table is n x n and every entry is 0.
C9_InitZeroFills ==
  (op \in {"initInteractionMatrix", "setNumParticleTypes"} /\ ret.value > 0) =>
    /\ numParticleTypes = ret.value
    /\ interactionMatrix = ZeroMatrix(ret.value)

-----------------------------------------------------------------------------
(* Claims about the force kernels, checked under SpecForce *)

\* C4: in a tick an inactive particle receives no force (no neighbour is
\* added to its total) and contributes no term to any other particle (every
\* neighbour a kernel adds is active, and the active particles end a kernel
\* call exactly as they would with the inactive ones taken out of the store);
\* when inactive slots are kept, its position and velocity (the whole slot)
\* are the same before and after the call, update(dt) included.
C4_InactiveTakesNoPart ==
  [][op' \in {"update", "simplifiedForceCalculation", "calculateInteractionForces"} =>
       /\ fault' = "none"
       /\ \A k \in 1..Len(particles) :
            /\ ~particles[k].active => ret'.pairs[k] = <<>>
            /\ \A x \in 1..Len(ret'.pairs[k]) : particles[ret'.pairs[k][x] + 1].active
       /\ op' # "update" =>
            LET live == SelectSeq(particles, LAMBDA p : p.active)
                kernel == IF op' = "calculateInteractionForces" THEN "grid" ELSE "simplified"
                alone == applyForces(live,
                           forcesFrom(live, interactionMatrix, numParticleTypes,
                                      pairsOf(kernel, live, boundary)),
                           ret'.deltaTime)
            IN  SelectSeq(particles', LAMBDA p : p.active) = alone
       /\ (op' # "update" \/ ~autoRemoveInactive) =>
            /\ Len(particles') = Len(particles)
            /\ \A k \in 1..Len(particles) :
                 ~particles[k].active => particles'[k] = particles[k]]_vars

\* update(dt) has run with inactive slots kept: a drifting inactive particle
\* within range of an active one is where it was, with no neighbour added
C4_Witness ==
  /\ op = "update"
  /\ ~autoRemoveInactive
  /\ \E k, j \in 1..Len(particles) :
       /\ ~particles[k].active
       /\ particles[k].velocity = DriftVelocity
       /\ particles[k].position \in Places
       /\ particles[j].active
       /\ particles[j].velocity # <<0, 0>>
       /\ inRange(dot(distVecOf(particles, j - 1, k - 1)))
       /\ ret.pairs[k] = <<>>

\* C6: in both kernels a kernel call ends without a fault, and for two
\* distinct active particles i and j the term of j is added to i's total
\* (once) exactly when 2.5 <= |p_j - p_i|^2 < R_MAX^2; a particle with no
\* such neighbour keeps its velocity through the kernel call.
C6_PairInRangeIff ==
  [][op' \in {"update", "simplifiedForceCalculation", "calculateInteractionForces"} =>
       /\ fault' = "none"
       /\ \A i, j \in 0..(Len(particles) - 1) :
            (i # j /\ particles[i + 1].active /\ particles[j + 1].active) =>
              LET distSqr == dot(distVecOf(particles, i, j))
                  hits == {x \in 1..Len(ret'.pairs[i + 1]) : ret'.pairs[i + 1][x] = j}
              IN  /\ Cardinality(hits) <= 1
                  /\ (hits # {}) <=> (MIN_DIST_SQR <= distSqr /\ distSqr < R_MAX_SQR)
       /\ op' # "update" =>
            \A k \in 1..Len(particles) :
              ret'.pairs[k] = <<>> => particles'[k] = particles[k]]_vars

\* the grid kernel has run on two active particles exactly at the minimum
\* distance, each in the other's total, and on none closer than that
C6_Witness ==
  /\ op = "calculateInteractionForces"
  /\ fault = "none"
  /\ Len(particles) = 2
  /\ dot(distVecOf(particles, 0, 1)) = MIN_DIST_SQR
  /\ ret.pairs = <<<<1>>, <<0>>>>
  /\ particles[1].velocity # <<0, 0>>

\* C7: after a kernel call the velocity of particle i has grown by the sum,
\* over the neighbours j added to its total, of the pair force evaluated with
\* the strength stored at row type_i, column type_j of the matrix.
C7_RowIsEvaluatingType ==
  [][op' \in {"simplifiedForceCalculation", "calculateInteractionForces"} =>
       /\ fault' = "none"
       /\ \A k \in 1..Len(particles) :
            LET near == ret'.pairs[k]
                term(x) ==
                  pairForce(particles, k - 1, near[x],
                            interactionMatrix[particles[k].particleType + 1]
                                             [particles[near[x] + 1].particleType + 1])
                total == IF Len(near) = 0 THEN <<0, 0>>
                         ELSE IF Len(near) = 1 THEN term(1)
                         ELSE <<term(1)[1] + term(2)[1], term(1)[2] + term(2)[2]>>
            IN  /\ Len(near) <= 2
                /\ particles'[k] =
                     applyForce(particles[k], <<total[1] * R_MAX, total[2] * R_MAX>>,
                                ret'.deltaTime)]_vars

\* the all-pairs kernel has run on two particles of different types under an
\* asymmetric matrix: type 0 is drawn to type 1 and type 1 pushed away from
\* type 0, so both got the same velocity
C7_Witness ==
  /\ op = "simplifiedForceCalculation"
  /\ Len(particles) = 2
  /\ particles[1].particleType = 0
  /\ particles[2].particleType = 1
  /\ interactionMatrix[1][2] # interactionMatrix[2][1]
  /\ ret.pairs = <<<<1>>, <<0>>>>
  /\ particles[1].velocity # <<0, 0>>
  /\ particles[1].velocity = particles[2].velocity

-----------------------------------------------------------------------------
(* Claims about the force law, checked under SpecLaw *)

\* C5: for every r_norm >= 0 and every strength a, each build of
\* calculateForce (NEON, scalar, compute shader) returns the piecewise law:
\* r_norm/BETA - 1 below BETA, a*(1 - |2 r_norm - 1 - BETA|/(1 - BETA)) from
\* BETA (included) up to 1 (excluded), and 0 from 1 on; so the three builds
\* return the same value.
C5_ForceLaw ==
  op \in {"calculateForce", "calculateForceScalar", "calculateForceGlsl"} =>
    LET r_norm == input[1]
        a == input[2]
        law == IF r_norm < BETA THEN TDiv(r_norm * FP, BETA) - FP
               ELSE IF BETA <= r_norm /\ r_norm < FP
                    THEN Mul(a, FP - TDiv(Abs((2 * r_norm) - FP - BETA) * FP, FP - BETA))
                    ELSE 0
    IN  fault = "none" /\ ret.value = law

\* the CPU build has been applied at the tie r_norm = BETA with a = 1, where
\* the law's second branch gives 0
C5_Witness ==
  /\ op = "calculateForce"
  /\ input = <<BETA, FP>>
  /\ ret.value = 0

-----------------------------------------------------------------------------
(* Further claims about the interaction matrix, checked under SpecMatrix *)

\* C11: in every reachable state every stored matrix entry lies in [-1, 1].
C11_EntriesWithinUnitInterval ==
  \A i \in 1..Len(interactionMatrix) :
    \A j \in 1..Len(interactionMatrix[i]) :
      -FP <= interactionMatrix[i][j] /\ interactionMatrix[i][j] <= FP

\* C12: randomizing is reproducible: the call takes no seed, so two
\* successive randomizeInteractionMatrix calls with the same number of types
\* are calls under the same supplied seed, and the second leaves the matrix
\* the first one produced.
C12_RandomizeReproducible ==
  [][(op = "randomizeInteractionMatrix" /\ op' = "randomizeInteractionMatrix"
      /\ fault' = "none") =>
       interactionMatrix' = interactionMatrix]_vars

-----------------------------------------------------------------------------
(* Claims about the boundary step of the integrator, checked under SpecBounds *)

\* C13: with the boundaries enabled, at the end of every update(dt) each
\* active particle's position is within the bound on both axes:
\* |x| <= (boundaryRight - boundaryLeft)/2 - radius and
\* |y| <= (boundaryBottom - boundaryTop)/2 - radius.
C13_WithinBoundsAfterUpdate ==
  (op = "update" /\ enableBounds) =>
    \A k \in 1..Len(particles) :
      particles[k].active =>
        /\ Abs(particles[k].position[1])
             <= ((boundary.right - boundary.left) \div 2) - particles[k].radius
        /\ Abs(particles[k].position[2])
             <= ((boundary.bottom - boundary.top) \div 2) - particles[k].radius

\* C14: with the boundaries enabled, an update that finds a particle beyond
\* the bound on an axis clamps that axis' position to the bound and multiplies
\* that axis' velocity by -0.9 before the friction and the position step; an
\* axis within its bound is not reflected, whatever the other axis does; with
\* the boundaries disabled no axis is reflected.
C14_ReflectionPerAxis ==
  [][(op' = "update" /\ Len(particles) = 1 /\ particles[1].active) =>
       LET p == particles[1]
           q == particles'[1]
           deltaTime == ret'.deltaTime
           bound == <<((boundary.right - boundary.left) \div 2) - p.radius,
                      ((boundary.bottom - boundary.top) \div 2) - p.radius>>
           beyond(axis) ==
             enableBounds /\ (p.position[axis] > bound[axis]
                              \/ p.position[axis] < -bound[axis])
           start(axis) ==
             IF ~beyond(axis) THEN p.position[axis]
             ELSE IF p.position[axis] > bound[axis] THEN bound[axis] ELSE -bound[axis]
           turned(axis) ==
             IF beyond(axis) THEN TDiv(p.velocity[axis] * (-9 * FP), 10 * FP)
             ELSE p.velocity[axis]
       IN  /\ fault' = "none"
           /\ Len(particles') = 1
           /\ \A axis \in 1..2 :
                /\ q.velocity[axis] = Mul(turned(axis), frictionFactor)
                /\ q.position[axis] =
                     start(axis) + TDiv(q.velocity[axis] * deltaTime, 1000)]_vars

\* update(0.02) has run on a particle that was one unit beyond the right
\* bound and within the bound on y, moving right and up: x is reflected from
\* the bound, y is only slowed by friction
C14_Witness ==
  /\ op = "update"
  /\ enableBounds
  /\ ret.deltaTime = 20
  /\ Len(particles) = 1
  /\ particles[1].position = <<8373, -71>>
  /\ particles[1].velocity = <<-6390, -3550>>

-----------------------------------------------------------------------------
(* Claims about the repulsion core, checked under SpecCore *)

AtRestInCore ==
  /\ Len(particles) = 2
  /\ \A k \in 1..2 : particles[k].active /\ particles[k].velocity = <<0, 0>>
  /\ ~enableBounds
  /\ (particles[2].position[1] - particles[1].position[1])
       * (particles[2].position[1] - particles[1].position[1])
     + (particles[2].position[2] - particles[1].position[2])
       * (particles[2].position[2] - particles[1].position[2])
     = CoreDistance * CoreDistance

\* the component of w along the line from particle `from` to particle `to`
\* of the state before the step, and the component across it
Along(w, from, to) ==
  w[1] * (particles[to].position[1] - particles[from].position[1])
  + w[2] * (particles[to].position[2] - particles[from].position[2])

Across(w, from, to) ==
  w[1] * (particles[to].position[2] - particles[from].position[2])
  - w[2] * (particles[to].position[1] - particles[from].position[1])

\* C15: two active particles at rest, 0.5 * BETA * R_MAX apart, boundaries
\* disabled: one update(dt) gives each a velocity pointing straight away from
\* the other and moves each straight away from the other, whatever the two
\* types and the matrix entries are; the separation grows strictly as soon as
\* velocity * dt amounts to one position step of the fixed-point grid, and
\* never shrinks.
C15_CoreRepels ==
  [][(op' = "update" /\ AtRestInCore) =>
       /\ fault' = "none"
       /\ Len(particles') = 2
       /\ \A k \in 1..2 :
            LET other == 3 - k
                v == particles'[k].velocity
                step == <<particles'[k].position[1] - particles[k].position[1],
                          particles'[k].position[2] - particles[k].position[2]>>
            IN  /\ Across(v, k, other) = 0
                /\ Along(v, k, other) < 0
                /\ Across(step, k, other) = 0
                /\ Along(step, k, other) <= 0
                /\ (Abs(v[1]) + Abs(v[2])) * ret'.deltaTime >= 1000
                     => Along(step, k, other) < 0
       /\ dot(distVecOf(particles', 0, 1)) >= CoreDistance * CoreDistance
       /\ (\E k \in 1..2 :
             (Abs(particles'[k].velocity[1]) + Abs(particles'[k].velocity[2]))
               * ret'.deltaTime >= 1000)
            => dot(distVecOf(particles', 0, 1)) > CoreDistance * CoreDistance
     ]_vars

\* two particles of different types under an attracting entry of 2.0, pushed
\* apart along x by one 50 ms update from rest
C15_Witness ==
  /\ op = "update"
  /\ ticks = 1
  /\ ret.deltaTime = 50
  /\ ~enableBounds
  /\ Len(particles) = 2
  /\ particles[1].particleType = 0 /\ particles[2].particleType = 1
  /\ interactionMatrix[1][2] = 2 * FP /\ interactionMatrix[2][1] = 2 * FP
  /\ particles[1].position[2] = 0 /\ particles[2].position[2] = 0
  /\ particles[1].position[1] < 0
  /\ particles[2].position[1] > CoreDistance


-----------------------------------------------------------------------------
(* Claims about the grid kernel, checked under SpecForce *)

\* C16: with cell size R_MAX and a grid of at least 1x1 cells, the 3x3 scan
\* of the grid kernel adds, for every particle i, the terms of exactly the
\* neighbours j the all-pairs kernel adds, each once, wherever the particles
\* are; and the velocities a kernel leaves are those the other kernel would
\* have left.
C16_GridScanIsAllPairs ==
  [][((op' = "calculateInteractionForces" \/ op' = "simplifiedForceCalculation")
        /\ gridWidth(boundary) >= 1 /\ gridHeight(boundary) >= 1) =>
       LET grid == gridNeighbours(particles, boundary)
           all == simplifiedNeighbours(particles)
       IN  /\ fault' = "none"
           /\ ret'.pairs = IF op' = "calculateInteractionForces" THEN grid ELSE all
           /\ \A k \in 1..Len(particles) :
                /\ Range(grid[k]) = Range(all[k])
                /\ Cardinality(Range(grid[k])) = Len(grid[k])
                /\ Cardinality(Range(all[k])) = Len(all[k])
           /\ particles' = applyForces(particles,
                             forcesFrom(particles, interactionMatrix, numParticleTypes,
                                        IF op' = "calculateInteractionForces"
                                        THEN all ELSE grid),
                             ret'.deltaTime)
     ]_vars

\* the grid kernel has run on two particles in neighbouring cells, each the
\* other's neighbour, one of them then left of the boundary rectangle
C16_Witness ==
  /\ op = "calculateInteractionForces"
  /\ Len(particles) >= 2
  /\ ret.pairs[1] = <<1>> /\ ret.pairs[2] = <<0>>
  /\ \E k \in 1..2 : particles[k].velocity # <<0, 0>>
  /\ \/ cellOf(boundary, particles[1].position) # cellOf(boundary, particles[2].position)
     \/ particles[2].position[1] < boundary.left

-----------------------------------------------------------------------------
(* Claims about the grid build, checked under SpecGrid *)

\* how many times index i is listed in the cell lists of grid g
listings(g, i) ==
  Cardinality({cx \in (DOMAIN g.grid) \X (1..Len(particles)) :
                 cx[2] <= Len(g.grid[cx[1]]) /\ g.grid[cx[1]][cx[2]] = i})

\* C17: after populateSpatialGrid in any call of the grid kernel every active
\* index is listed once, in one cell list; no inactive index is listed; the
\* recorded (cellX[i], cellY[i]) of an active i names the cell whose list
\* holds it; and activeParticles lists every active index once.
C17_GridHoldsEachActiveOnce ==
  [][op' = "calculateInteractionForces" =>
       /\ fault' = "none"
       /\ LET g == populateSpatialGrid(particles, boundary)
          IN  \A k \in 1..Len(particles) :
                LET i == k - 1
                    c == (g.cellY[k] * gridWidth(boundary)) + g.cellX[k]
                    listed == {x \in 1..Len(g.activeParticles) : g.activeParticles[x] = i}
                IN  IF particles[k].active
                    THEN /\ listings(g, i) = 1
                         /\ c \in DOMAIN g.grid
                         /\ i \in Range(g.grid[c])
                         /\ Cardinality(listed) = 1
                    ELSE /\ listings(g, i) = 0
                         /\ listed = {}
     ]_vars

-----------------------------------------------------------------------------
(* Claims about the phases of a tick, checked under SpecPhases *)

\* the kernel of the call in progress and the iterations of its loops
CallKernel == kernelOf(call.name, Len(call.atStart))

CallWorkers == workersOf(CallKernel, call.atStart)

\* C18: within one update(dt), and within a kernel called directly, every
\* force evaluation works on the positions, types and active flags of the
\* start of the tick (the grid is built from them before the first
\* evaluation, and the evaluation's result is the one they give); a velocity
\* changes only once every particle's force has been computed; a position
\* changes only once every force has been applied; and the finished update
\* leaves what force phase, apply phase, integration and erase give in turn.
C18_PhasesInOrder ==
  [][/\ (call.phase = "force" /\ call'.computed # call.computed) =>
          /\ \A k \in 1..Len(particles) :
               /\ particles[k].position = call.atStart[k].position
               /\ particles[k].particleType = call.atStart[k].particleType
               /\ particles[k].active = call.atStart[k].active
          /\ \A i \in call'.computed \ call.computed :
               /\ call'.pairs[i + 1]
                    = pairsOf(CallKernel, call.atStart, boundary)[i + 1]
               /\ call'.forceBuffer[i + 1]
                    = forcesFrom(call.atStart, interactionMatrix, numParticleTypes,
                                 pairsOf(CallKernel, call.atStart, boundary))[i + 1]
     /\ (/\ Len(particles') = Len(particles)
         /\ \E k \in 1..Len(particles) :
              particles'[k].velocity # particles[k].velocity) =>
          /\ call.phase \in {"apply", "integrate"}
          /\ CallKernel # "none" => call.computed = CallWorkers
     /\ (/\ Len(particles') = Len(particles)
         /\ \E k \in 1..Len(particles) :
              particles'[k].position # particles[k].position) =>
          /\ call.phase = "integrate"
          /\ CallKernel # "none" => call.applied = CallWorkers
     /\ (call.phase # "idle" /\ call'.phase = "idle" /\ call.name = "update") =>
          LET forces == forcesFrom(call.atStart, interactionMatrix, numParticleTypes,
                                   pairsOf(CallKernel, call.atStart, boundary))
              forced == applyForces(call.atStart, forces, call.deltaTime)
              moved == [k \in 1..Len(forced) |->
                          particleUpdate(forced[k], boundary, enableBounds,
                                         call.deltaTime)]
          IN  particles' = IF autoRemoveInactive THEN removeInactive(moved) ELSE moved
    ]_vars

\* an update has run phase by phase on three active particles and has changed
\* a velocity and a position
C18_Witness ==
  /\ op = "update"
  /\ call.name = "update"
  /\ call.phase = "idle"
  /\ call.computed = Slots
  /\ call.applied = Slots
  /\ Len(particles) = Len(call.atStart)
  /\ \E k \in 1..Len(particles) :
       /\ particles[k].velocity # call.atStart[k].velocity
       /\ particles[k].position # call.atStart[k].position

\* C19: in the force loop the worker of particle i writes forceBuffer[i] and
\* nothing else, in the apply loop particle i's velocity and nothing else; no
\* location is written by two workers of a phase, and none is written by one
\* worker and read by another in the same phase.
C19_WorkersOwnTheirSlot ==
  call.phase \in {"force", "apply"} =>
    LET slot == IF call.phase = "force" THEN "forceBuffer" ELSE "velocity"
    IN  /\ \A a \in call.accesses : a.write => a.loc = <<slot, a.worker>>
        /\ \A a \in call.accesses : \A b \in call.accesses :
             (a.write /\ a.worker # b.worker) => a.loc # b.loc

\* the force loop of the grid kernel has finished: two workers have written
\* their slots, and one has read the position of the other's particle
C19_Witness ==
  /\ call.name = "calculateInteractionForces"
  /\ call.phase = "force"
  /\ call.pending = {}
  /\ \E a \in call.accesses : \E b \in call.accesses :
       /\ a.write /\ b.write /\ a.worker # b.worker
       /\ [worker |-> a.worker, write |-> FALSE, loc |-> <<"position", b.worker>>]
            \in call.accesses
       /\ call.forceBuffer[a.worker + 1] # <<0, 0>>

\* C20: in the parallel integration loop (update above BATCH_SIZE particles,
\* and Particle::updateAll) the invocation of Particle::update for particle i
\* writes only particle i's fields and instance slot i, no location is
\* written by one invocation and read or written by another, and the loop
\* ends as the sequential loop would: same particles, same refreshed
\* instance slots, same accumulator.
C20_UpdatesShareNothing ==
  /\ (call.phase = "integrate" /\ parallelUpdate(call.name, Len(call.atStart))) =>
       /\ \A a \in call.accesses :
            a.write => a.loc \in {<<"position", a.worker>>, <<"velocity", a.worker>>,
                                  <<"instanceData", a.worker>>}
       /\ \A a \in call.accesses : \A b \in call.accesses :
            (a.write /\ a.worker # b.worker) => a.loc # b.loc
  /\ (call.phase = "idle" /\ call.name = "updateAll") =>
       LET after == accumulateFrom(call.atStart, 0, call.accAtStart, {}, call.deltaTime)
       IN  /\ particles = [k \in 1..Len(call.atStart) |->
                             particleUpdate(call.atStart[k], boundary, enableBounds,
                                            call.deltaTime)]
           /\ call.refreshed = after.refreshed
           /\ timeAccumulator = after.timeAccumulator

-----------------------------------------------------------------------------
(* Claims about the erase of inactive particles, checked under SpecForce *)

\* C21: when update() erases the inactive particles, the store afterwards
\* holds the surviving particles in order, each with the position, velocity,
\* radius, active flag and type it had before the erase.
C21_SurvivorsKeepAttributes ==
  [][(op' = "update" /\ autoRemoveInactive /\ fault' = "none") =>
       LET forces == forcesFrom(particles, interactionMatrix, numParticleTypes,
                                ret'.pairs)
           forced == applyForces(particles, forces, ret'.deltaTime)
           moved == [k \in 1..Len(forced) |->
                       particleUpdate(forced[k], boundary, enableBounds,
                                      ret'.deltaTime)]
       IN  particles' = SelectSeq(moved, LAMBDA p : p.active)
     ]_vars

-----------------------------------------------------------------------------
(* Claims about the lookup table of strengths, checked under SpecLUT *)

\* C22: whenever the kernel reads the strengths through its table, the value
\* it uses for (type_i, type_j) is the current matrix entry
\* getInteractionStrength(type_i, type_j), also in the first call after the
\* type count, randomizeInteractions or setInteractionStrength changed it.
C22_TableFollowsMatrix ==
  [][(op' = "calculateInteractionForcesLUT" /\ fault' = "none") =>
       \A k \in 1..Len(particles) : \A x \in 1..Len(ret'.pairs[k]) :
         LET type_i == particles[k].particleType
             type_j == particles[ret'.pairs[k][x] + 1].particleType
         IN  lutInteraction(interactionLUT', interactionMatrix, numParticleTypes,
                            type_i, type_j)
               = getInteractionStrength(interactionMatrix, numParticleTypes,
                                        type_i, type_j)
     ]_vars

-----------------------------------------------------------------------------
(* Claims about the cell of a particle, checked under SpecForce *)

\* C23: the cell populateSpatialGrid records for an active particle is
\* clamp(floor((pos - boundaryMin) / cellSize), 0, extent - 1) on each axis,
\* also left of and above boundaryMin, where the truncation toward zero of
\* the code is not the floor.
C23_CellIsClampedFloor ==
  [][(op' = "calculateInteractionForces" /\ fault' = "none") =>
       LET g == populateSpatialGrid(particles, boundary)
       IN  \A k \in 1..Len(particles) :
             particles[k].active =>
               /\ g.cellX[k] = clamp((particles[k].position[1] - boundary.left)
                                       \div gridCellSize,
                                     0, gridWidth(boundary) - 1)
               /\ g.cellY[k] = clamp((particles[k].position[2] - boundary.top)
                                       \div gridCellSize,
                                     0, gridHeight(boundary) - 1)
     ]_vars

\* the grid kernel has run with an active particle less than one cell left
\* of and above the boundary rectangle, where floor gives -1 and truncation 0
C23_Witness ==
  /\ op = "calculateInteractionForces"
  /\ \E k \in 1..Len(particles) :
       /\ particles[k].active
       /\ particles[k].position[1] < boundary.left
       /\ particles[k].position[2] < boundary.top
       /\ (particles[k].position[1] - boundary.left) \div gridCellSize = -1
       /\ TDiv(particles[k].position[1] - boundary.left, gridCellSize) = 0
       /\ cellOf(boundary, particles[k].position) = <<0, 0>>

\* C24: for every boundary rectangle the settings can hold, the grid of
\* calculateInteractionForces has at least one column and one row, and the
\* cell index y * gridWidth + x of every active particle lies inside the
\* grid array.  Checked under SpecGrid, whose sliders cross the edges.
C24_GridHasCells ==
  [][op' = "calculateInteractionForces" =>
       /\ gridWidth(boundary) >= 1
       /\ gridHeight(boundary) >= 1
       /\ \A k \in 1..Len(particles) :
            particles[k].active =>
              LET c == cellOf(boundary, particles[k].position)
              IN  (c[2] * gridWidth(boundary)) + c[1]
                    \in 0..((gridWidth(boundary) * gridHeight(boundary)) - 1)
     ]_vars

-----------------------------------------------------------------------------
(* The frame loop: particleSystem->update(deltaTime) once per frame, with
   deltaTime = min(rawDeltaTime * simulationSpeed, 0.05) below the 1/60 s of
   the instance refresh (a display faster than 60 Hz, or a simulation speed
   below 1).  Particles are set moving and come to rest by friction. *)

\* frame times in milliseconds, both below FrameTime
FrameDeltas == {5, 10}

\* the slots whose position differs between two particle vectors
movedSlots(before, after) ==
  {k \in 0..(Len(before) - 1) :
     k < Len(after) /\ after[k + 1].position # before[k + 1].position}

\* one frame of the main loop: ParticleSystem::update(deltaTime) as a whole,
\* recording the slots it moved and the instance slots it refreshed
Frame(deltaTime) ==
  /\ fault = "none"
  /\ op' = "update"
  /\ \E pairs \in {scanOf(kernelFor(Len(particles)), particles, boundary)} :
       LET bad == forceFault(kernelFor(Len(particles)), particles,
                             interactionMatrix, numParticleTypes, boundary, pairs)
       IN  IF bad # "none"
           THEN /\ fault' = bad
                /\ ret' = NoRet
                /\ UNCHANGED <<particles, timeAccumulator>>
           ELSE \E updated \in
                  {LET forces == forcesFrom(particles, interactionMatrix,
                                            numParticleTypes, pairs)
                       forced == IF kernelFor(Len(particles)) = "none" THEN particles
                                 ELSE applyForces(particles, forces, deltaTime)
                   IN  [k \in 1..Len(forced) |->
                          particleUpdate(forced[k], boundary, enableBounds, deltaTime)]} :
                  \E a \in {accumulateFrom(particles, 0, timeAccumulator, {}, deltaTime)} :
                    /\ particles' = IF autoRemoveInactive
                                    THEN removeInactive(updated) ELSE updated
                    /\ timeAccumulator' = a.timeAccumulator
                    /\ ret' = [NoRet EXCEPT !.pairs = pairs,
                                            !.deltaTime = deltaTime,
                                            !.moved = movedSlots(particles, updated),
                                            !.refreshed = a.refreshed]
                    /\ fault' = fault
  /\ UNCHANGED <<maxParticles, nextParticleIndex, autoRemoveInactive,
                 inactiveIndices, interactionMatrix, numParticleTypes,
                 initialized, particleCount, boundary, enableBounds, ticks,
                 input, call, interactionLUT, treeVars>>

\* where the particles of a frame scene start, more than R_MAX apart
FramePlaces == <<<<30 * FP, 30 * FP>>, <<-(60 * FP), 40 * FP>>>>

\* the velocities they are set to
FrameVelocities == {<<3 * FP, 0>>, <<-(2 * FP), 4 * FP>>}

\* one or two particles, created, placed and set moving
FrameScenes ==
  {<<Moving(FramePlaces[1], v)>> : v \in FrameVelocities}
    \cup {<<Moving(FramePlaces[1], v), Moving(FramePlaces[2], w)>> :
            v \in FrameVelocities, w \in FrameVelocities}

InitRefresh ==
  /\ particles \in FrameScenes
  /\ maxParticles = 2
  /\ nextParticleIndex = 0
  /\ autoRemoveInactive = FALSE
  /\ inactiveIndices = <<>>
  /\ numParticleTypes = 1
  /\ interactionMatrix \in initInteractionMatrix(numParticleTypes)
  /\ initialized = TRUE
  /\ particleCount = Len(particles)
  /\ boundary = DefaultBoundary
  /\ enableBounds = TRUE
  /\ ticks = 0
  /\ input = NoInput
  /\ op = "init"
  /\ ret = NoRet
  /\ fault = "none"
  /\ timeAccumulator = 0
  /\ call = Idle
  /\ interactionLUT = NoLUT
  /\ bodies = <<>>
  /\ inserted = <<>>
  /\ quadtree = NoQuadtree
  /\ optimizedQuadtree = NoOptimizedQuadtree

NextRefresh == \E deltaTime \in FrameDeltas : Frame(deltaTime)

\* the loop runs a frame after a frame
SpecRefresh == InitRefresh /\ [][NextRefresh]_vars /\ WF_vars(NextRefresh)

\* C25: an active particle that an update tick has moved without refreshing
\* its instance record has the record refreshed by some later tick, for every
\* particle count and every deltaTime.
C25_RecordsCatchUp ==
  \A k \in 0..1 :
    []((op = "update" /\ k \in ret.moved /\ k \notin ret.refreshed)
         => <>(op = "update" /\ k \in ret.refreshed))

-----------------------------------------------------------------------------
(* DataStruct/Quadtree.h and DataStruct/OptimisedQuadtree.h: the Barnes-Hut
   quadtrees.  Lengths are in steps of 1/QP unit, masses in whole units; a
   Particle* and an index into the SoA arrays are both the number of a body
   (1-based in the sequence bodies). *)

\* steps per unit of length in the tree geometry
QP == 2 * 2
\* Quadtree::MAX_PARTICLES_PER_LEAF = 4
MAX_PARTICLES_PER_LEAF == 4
\* OptimizedQuadtree::MAX_PARTICLES_PER_LEAF = 8
optMAX_PARTICLES_PER_LEAF == 8
\* MAX_DEPTH = 20 in both classes
MAX_DEPTH == 20
\* MIN_NODE_SIZE = 1.0F in both classes
MIN_NODE_SIZE == 1 * QP
\* THETA = 0.5F in both classes, as a fraction
THETA == [num |-> 1, den |-> 2]
\* maxForce = 1000.0F (Quadtree), MAX_FORCE = 1000.0F (OptimizedQuadtree),
\* in thousandths
treeMAX_FORCE == 1000 * 1000

\* the value of an expression that is computed once: the element of a
\* singleton set
the(S) == CHOOSE x \in S : TRUE

\* QuadtreeAABB(center, halfDimension)
QuadtreeAABB(center, halfDimension) ==
  [center |-> center, halfDimension |-> halfDimension]

\* QuadtreeAABB::contains
contains(b, point) ==
  /\ point[1] >= b.center[1] - b.halfDimension
  /\ point[1] <= b.center[1] + b.halfDimension
  /\ point[2] >= b.center[2] - b.halfDimension
  /\ point[2] <= b.center[2] + b.halfDimension

\* QuadtreeAABB::getQuadrant: 0 SW, 1 SE, 2 NW, 3 NE
getQuadrant(b, point) ==
  IF point[1] < b.center[1]
  THEN (IF point[2] < b.center[2] THEN 0 ELSE 2)
  ELSE (IF point[2] < b.center[2] THEN 1 ELSE 3)

\* QuadtreeAABB::subdivide: the four child boxes, SW, SE, NW, NE
subdivide(b) ==
  LET quarterDimension == TDiv(b.halfDimension, 2)
      x == b.center[1]
      y == b.center[2]
  IN  <<QuadtreeAABB(<<x - quarterDimension, y - quarterDimension>>, quarterDimension),
        QuadtreeAABB(<<x + quarterDimension, y - quarterDimension>>, quarterDimension),
        QuadtreeAABB(<<x - quarterDimension, y + quarterDimension>>, quarterDimension),
        QuadtreeAABB(<<x + quarterDimension, y + quarterDimension>>, quarterDimension)>>

\* QuadtreeNode(bounds) of Quadtree.h
QuadtreeNode(bounds) ==
  [bounds |-> bounds, childrenStartIndex |-> -1, totalMass |-> 0,
   centerOfMass |-> <<0, 0>>, particleCount |-> 0, storedParticles |-> <<>>]

\* QuadtreeNode::isLeaf
isLeaf(node) == node.childrenStartIndex = -1

\* Quadtree::initialize: one root node.  dangling records that a read of
\* destroyed nodes has happened on the way to this tree.
initialize(initialBounds) ==
  [nodes |-> <<QuadtreeNode(initialBounds)>>, rootNodeIndex |-> 0,
   dangling |-> FALSE]

\* Quadtree::subdivideNode: four children appended to the node array
subdivideNode(ns, nodeIndex) ==
  LET node == ns[nodeIndex + 1]
  IN  IF ~isLeaf(node) \/ node.bounds.halfDimension * 2 < MIN_NODE_SIZE * 2
      THEN ns
      ELSE [ns EXCEPT ![nodeIndex + 1].childrenStartIndex = Len(ns)]
             \o [i \in 1..4 |-> QuadtreeNode(subdivide(node.bounds)[i])]

\* insertRecursive: the leaf keeps the new particle
keepsParticle(node, depth) ==
  \/ Len(node.storedParticles) < MAX_PARTICLES_PER_LEAF
  \/ depth >= MAX_DEPTH
  \/ node.bounds.halfDimension * 2 < MIN_NODE_SIZE * 2

RECURSIVE insertRecursive(_, _, _, _, _)
RECURSIVE reinsertStored(_, _, _, _, _)
\* Quadtree::insertRecursive(nodeIndex, p, depth) on the node array ns
insertRecursive(ns, bs, nodeIndex, p, depth) ==
  LET node == ns[nodeIndex + 1]
      totalMass == node.totalMass + bs[p].mass
      centerOfMass ==
        <<TDiv((node.centerOfMass[1] * totalMass) + (bs[p].position[1] * bs[p].mass),
               totalMass + bs[p].mass),
          TDiv((node.centerOfMass[2] * totalMass) + (bs[p].position[2] * bs[p].mass),
               totalMass + bs[p].mass)>>
      counted == [ns EXCEPT ![nodeIndex + 1].totalMass = totalMass,
                            ![nodeIndex + 1].centerOfMass = centerOfMass,
                            ![nodeIndex + 1].particleCount = @ + 1]
      quadrant == getQuadrant(node.bounds, bs[p].position)
  IN  IF isLeaf(node)
      THEN IF keepsParticle(node, depth)
           THEN [counted EXCEPT ![nodeIndex + 1].storedParticles = Append(@, p)]
           ELSE the({insertRecursive(
                       [moved EXCEPT ![nodeIndex + 1].storedParticles = <<>>], bs,
                       moved[nodeIndex + 1].childrenStartIndex + quadrant,
                       p, depth + 1) :
                     moved \in {reinsertStored(subdivideNode(counted, nodeIndex),
                                               bs, nodeIndex,
                                               node.storedParticles, depth)}})
      ELSE the({insertRecursive(c, bs, node.childrenStartIndex + quadrant,
                                p, depth + 1) : c \in {counted}})

\* the loop that re-inserts the particles of a split leaf into its children
reinsertStored(ns, bs, nodeIndex, stored, depth) ==
  IF stored = <<>> THEN ns
  ELSE LET node == ns[nodeIndex + 1]
           quadrant == getQuadrant(node.bounds, bs[Head(stored)].position)
       IN  the({reinsertStored(next, bs, nodeIndex, Tail(stored), depth) :
                  next \in {insertRecursive(ns, bs,
                                            node.childrenStartIndex + quadrant,
                                            Head(stored), depth + 1)}})

RECURSIVE subtreeParticles(_, _)
\* the particles stored in the leaves under a node, in child order
subtreeParticles(ns, nodeIndex) ==
  LET node == ns[nodeIndex + 1]
  IN  IF isLeaf(node) THEN node.storedParticles
      ELSE subtreeParticles(ns, node.childrenStartIndex)
             \o subtreeParticles(ns, node.childrenStartIndex + 1)
             \o subtreeParticles(ns, node.childrenStartIndex + 2)
             \o subtreeParticles(ns, node.childrenStartIndex + 3)

RECURSIVE insert(_, _, _, _)
RECURSIVE insertAll(_, _, _, _)
RECURSIVE expandRootToFit(_, _, _, _)
\* Quadtree::insert(p).  stale is the set of bodies that a read of the
\* destroyed nodes of the old tree still yields.
insert(t, bs, p, stale) ==
  LET ready == IF t.rootNodeIndex = -1 \/ t.nodes = <<>>
               THEN [initialize(QuadtreeAABB(<<0, 0>>, 1000 * QP))
                       EXCEPT !.dangling = t.dangling]
               ELSE t
  IN  the({[fitted EXCEPT !.nodes = insertRecursive(fitted.nodes, bs,
                                                    fitted.rootNodeIndex, p, 0)] :
             fitted \in {IF ~contains(ready.nodes[ready.rootNodeIndex + 1].bounds,
                                      bs[p].position)
                         THEN expandRootToFit(ready, bs, bs[p].position, stale)
                         ELSE ready}})

\* a loop of insert(p) over a list of particles
insertAll(t, bs, ps, stale) ==
  IF ps = <<>> THEN t
  ELSE IF Len(ps) = 1 THEN insert(t, bs, ps[1], stale)
  ELSE the({insertAll(half, bs, SubSeq(ps, (Len(ps) \div 2) + 1, Len(ps)), stale) :
              half \in {insertAll(t, bs, SubSeq(ps, 1, Len(ps) \div 2), stale)}})

\* Quadtree::expandRootToFit(position) with copyChildrenFromOldTree: the
\* tree is reset to a root of twice the size, the particles of the old root
\* are inserted again, and the children of the old root are read from the
\* node array after clearAndReset has destroyed them
expandRootToFit(t, bs, position, stale) ==
  LET oldRoot == t.nodes[t.rootNodeIndex + 1]
      c == oldRoot.bounds.center
      h == oldRoot.bounds.halfDimension
      newCenter ==
        <<IF position[1] < c[1] - h THEN c[1] + h
          ELSE IF position[1] > c[1] + h THEN c[1] - h ELSE c[1],
          IF position[2] < c[2] - h THEN c[2] + h
          ELSE IF position[2] > c[2] + h THEN c[2] - h ELSE c[2]>>
      reset == [initialize(QuadtreeAABB(newCenter, h * 2))
                  EXCEPT !.dangling = t.dangling]
  IN  the({IF isLeaf(oldRoot) THEN again
           ELSE insertAll([again EXCEPT !.dangling = TRUE], bs,
                          SelectSeq(subtreeParticles(t.nodes, t.rootNodeIndex),
                                    LAMBDA q : q \in stale),
                          stale) :
             again \in {insertAll(reset, bs, oldRoot.storedParticles, stale)}})

\* std::min / std::max over the coordinates of a non-empty list of bodies
minOf(bs, ps, axis) ==
  CHOOSE v \in {bs[ps[k]].position[axis] : k \in 1..Len(ps)} :
    \A k \in 1..Len(ps) : v <= bs[ps[k]].position[axis]

maxOf(bs, ps, axis) ==
  CHOOSE v \in {bs[ps[k]].position[axis] : k \in 1..Len(ps)} :
    \A k \in 1..Len(ps) : v >= bs[ps[k]].position[axis]

Max(a, b) == IF a > b THEN a ELSE b

\* Quadtree::calculateBoundsForParticles, with its padding of 1.05
calculateBoundsForParticles(bs, ps) ==
  IF ps = <<>> THEN QuadtreeAABB(<<0, 0>>, 10 * QP)
  ELSE LET center == <<TDiv(minOf(bs, ps, 1) + maxOf(bs, ps, 1), 2),
                       TDiv(minOf(bs, ps, 2) + maxOf(bs, ps, 2), 2)>>
           halfDim == TDiv(Max(maxOf(bs, ps, 1) - center[1],
                               maxOf(bs, ps, 2) - center[2]) * 105, 100)
       IN  QuadtreeAABB(center, halfDim)

\* Quadtree::rebuild(particles)
rebuild(bs, ps, stale) ==
  IF ps = <<>> THEN initialize(QuadtreeAABB(<<0, 0>>, 10 * QP))
  ELSE LET newBounds == calculateBoundsForParticles(bs, ps)
           padded == QuadtreeAABB(newBounds.center,
                                  TDiv(newBounds.halfDimension * 12, 10))
       IN  insertAll(initialize(padded), bs, ps, stale)


\* QuadtreeNode(bounds) of OptimisedQuadtree.h
optQuadtreeNode(bounds) ==
  [bounds |-> bounds, childrenStartIndex |-> -1, totalMass |-> 0,
   centerOfMass |-> <<0, 0>>, particleCount |-> 0, particleIndices |-> <<>>]

\* OptimizedQuadtree::calculateBounds over particles 1..count, with
\* GROWTH_FACTOR = 1.05
calculateBounds(bs) ==
  IF bs = <<>> THEN QuadtreeAABB(<<0, 0>>, 10 * QP)
  ELSE LET all == [k \in 1..Len(bs) |-> k]
           center == <<TDiv(minOf(bs, all, 1) + maxOf(bs, all, 1), 2),
                       TDiv(minOf(bs, all, 2) + maxOf(bs, all, 2), 2)>>
           halfDim == TDiv(Max(maxOf(bs, all, 1) - center[1],
                               maxOf(bs, all, 2) - center[2]) * 105, 100)
       IN  QuadtreeAABB(center, halfDim)

\* OptimizedQuadtree::subdivideNode
optSubdivideNode(ns, nodeIndex) ==
  LET node == ns[nodeIndex + 1]
  IN  IF ~isLeaf(node) THEN ns
      ELSE [ns EXCEPT ![nodeIndex + 1].childrenStartIndex = Len(ns)]
             \o [i \in 1..4 |-> optQuadtreeNode(subdivide(node.bounds)[i])]

\* insertParticlesRecursive: the node keeps all the indices it was given
storesAll(node, indices, depth) ==
  \/ Len(indices) <= optMAX_PARTICLES_PER_LEAF
  \/ depth >= MAX_DEPTH
  \/ node.bounds.halfDimension <= MIN_NODE_SIZE

RECURSIVE insertParticlesRecursive(_, _, _, _, _)
RECURSIVE insertQuadrant(_, _, _, _, _, _)
\* OptimizedQuadtree::insertParticlesRecursive(node, indices, depth): the
\* four quadrant buckets are filled one after the other
insertParticlesRecursive(ns, bs, nodeIndex, indices, depth) ==
  IF indices = <<>> THEN ns
  ELSE IF storesAll(ns[nodeIndex + 1], indices, depth)
       THEN [ns EXCEPT ![nodeIndex + 1].particleIndices = indices]
       ELSE the({insertQuadrant(q2, bs, nodeIndex, indices, depth, 3) :
                   q2 \in {insertQuadrant(q1, bs, nodeIndex, indices, depth, 2) :
                     q1 \in {insertQuadrant(q0, bs, nodeIndex, indices, depth, 1) :
                       q0 \in {insertQuadrant(split, bs, nodeIndex, indices, depth, 0) :
                         split \in {optSubdivideNode(ns, nodeIndex)}}}}})

\* the bucket of quadrant i goes to child i, if it is not empty
insertQuadrant(ns, bs, nodeIndex, indices, depth, i) ==
  LET node == ns[nodeIndex + 1]
      bucket == SelectSeq(indices,
                  LAMBDA idx : getQuadrant(node.bounds, bs[idx].position) = i)
  IN  IF bucket = <<>> THEN ns
      ELSE insertParticlesRecursive(ns, bs, node.childrenStartIndex + i,
                                    bucket, depth + 1)

RECURSIVE massOf(_, _)
\* the sum of particles->mass over a list of indices
massOf(bs, indices) ==
  IF indices = <<>> THEN 0 ELSE bs[Head(indices)].mass + massOf(bs, Tail(indices))

RECURSIVE momentOf(_, _, _)
\* the sum of position * mass over a list of indices, one axis
momentOf(bs, indices, axis) ==
  IF indices = <<>> THEN 0
  ELSE (bs[Head(indices)].position[axis] * bs[Head(indices)].mass)
         + momentOf(bs, Tail(indices), axis)

RECURSIVE computeMassDistribution(_, _, _)
\* OptimizedQuadtree::computeMassDistribution(node), bottom-up
computeMassDistribution(ns, bs, nodeIndex) ==
  LET node == ns[nodeIndex + 1]
  IN  IF isLeaf(node)
      THEN LET totalMass == massOf(bs, node.particleIndices)
           IN  [ns EXCEPT
                  ![nodeIndex + 1].totalMass = totalMass,
                  ![nodeIndex + 1].particleCount = Len(node.particleIndices),
                  ![nodeIndex + 1].centerOfMass =
                     IF totalMass > 0
                     THEN <<TDiv(momentOf(bs, node.particleIndices, 1), totalMass),
                            TDiv(momentOf(bs, node.particleIndices, 2), totalMass)>>
                     ELSE <<0, 0>>]
      ELSE the({
           LET first == node.childrenStartIndex
               child == [i \in 0..3 |-> done[first + i + 1]]
               totalMass == child[0].totalMass + child[1].totalMass
                              + child[2].totalMass + child[3].totalMass
               sum(axis) ==
                 (child[0].centerOfMass[axis] * child[0].totalMass)
                   + (child[1].centerOfMass[axis] * child[1].totalMass)
                   + (child[2].centerOfMass[axis] * child[2].totalMass)
                   + (child[3].centerOfMass[axis] * child[3].totalMass)
           IN  [done EXCEPT
                  ![nodeIndex + 1].totalMass = totalMass,
                  ![nodeIndex + 1].particleCount =
                     child[0].particleCount + child[1].particleCount
                       + child[2].particleCount + child[3].particleCount,
                  ![nodeIndex + 1].centerOfMass =
                     IF totalMass > 0
                     THEN <<TDiv(sum(1), totalMass), TDiv(sum(2), totalMass)>>
                     ELSE <<0, 0>>] :
           done \in {computeMassDistribution(c2, bs, node.childrenStartIndex + 3) :
             c2 \in {computeMassDistribution(c1, bs, node.childrenStartIndex + 2) :
               c1 \in {computeMassDistribution(c0, bs, node.childrenStartIndex + 1) :
                 c0 \in {computeMassDistribution(ns, bs, node.childrenStartIndex)}}}}})

\* OptimizedQuadtree::buildTree over the particle system bs
buildTree(t, bs) ==
  IF bs = <<>> THEN t
  ELSE the({[nodes |-> computeMassDistribution(filled, bs, 0), rootNode |-> 0] :
              filled \in {insertParticlesRecursive(
                            <<optQuadtreeNode(calculateBounds(bs))>>, bs, 0,
                            [k \in 1..Len(bs) |-> k], 0)}})

-----------------------------------------------------------------------------
(* The Barnes-Hut force of both classes.  A force is in thousandths; the
   result of a walk is the force and the list of the nodes that were used
   as point masses. *)

\* std::sqrt of a squared length
treeSqrt(n) == SqrtBetween(n, 0, 46340)

RECURSIVE treeLog(_)
\* log(x) of a ratio x >= 1 given in thousandths, in thousandths
treeLog(x) ==
  IF x < 2718 THEN TDiv((x - 1000) * 1000, 1718)
  ELSE 1000 + treeLog(TDiv(x * 1000, 2718))

\* the soft clamp of both classes: maxForce + log(forceMagnitude / maxForce)
softClamp(forceMagnitude) ==
  IF forceMagnitude > treeMAX_FORCE
  THEN treeMAX_FORCE + treeLog(TDiv(forceMagnitude, 1000))
  ELSE forceMagnitude

\* direction * forceMagnitude for a node taken as one point mass
pointMass(node, direction, distanceSquared, mass, G) ==
  IF direction = <<0, 0>> THEN <<0, 0>>
  ELSE LET distance == treeSqrt(distanceSquared)
           forceMagnitude ==
             softClamp(TDiv(G * node.totalMass * mass * QP * QP * 1000,
                            distanceSquared))
       IN  <<TDiv(direction[1] * forceMagnitude, distance),
             TDiv(direction[2] * forceMagnitude, distance)>>

\* (halfDimension * 2) / distance < THETA
farEnough(node, distanceSquared) ==
  (node.bounds.halfDimension * 2) * THETA.den < THETA.num * treeSqrt(distanceSquared)

\* no contribution
NoForce == [force |-> <<0, 0>>, used |-> <<>>]

\* the sum of two walks
plus(a, b) ==
  [force |-> <<a.force[1] + b.force[1], a.force[2] + b.force[2]>>,
   used |-> a.used \o b.used]

RECURSIVE calculateForceRecursive(_, _, _, _)
\* Quadtree::calculateForceRecursive(nodeIndex, targetParticle, G, force)
calculateForceRecursive(ns, nodeIndex, target, G) ==
  LET node == ns[nodeIndex + 1]
      direction == <<node.centerOfMass[1] - target.position[1],
                     node.centerOfMass[2] - target.position[2]>>
      distanceSquared == (direction[1] * direction[1]) + (direction[2] * direction[2])
  IN  IF node.particleCount = 0 THEN NoForce
      ELSE IF distanceSquared <= TDiv(QP * QP, 10000) THEN NoForce
      ELSE IF isLeaf(node) \/ farEnough(node, distanceSquared)
           THEN [force |-> pointMass(node, direction, distanceSquared, target.mass, G),
                 used |-> <<nodeIndex>>]
           ELSE plus(plus(calculateForceRecursive(ns, node.childrenStartIndex, target, G),
                          calculateForceRecursive(ns, node.childrenStartIndex + 1, target, G)),
                     plus(calculateForceRecursive(ns, node.childrenStartIndex + 2, target, G),
                          calculateForceRecursive(ns, node.childrenStartIndex + 3, target, G)))

\* Quadtree::calculateForceOnParticle(targetParticle, gravitationalConstant)
calculateForceOnParticle(t, target, G) ==
  IF t.rootNodeIndex = -1 \/ t.nodes = <<>> THEN NoForce
  ELSE calculateForceRecursive(t.nodes, t.rootNodeIndex, target, G)

\* SOFTENING_SQUARED = 0.025 * 0.025 in squared steps
SOFTENING_SQUARED == TDiv(25 * 25 * QP * QP, 1000 * 1000)

RECURSIVE computeForceRecursive(_, _, _, _)
\* OptimizedQuadtree::computeForceRecursive(node, particlePos, particleMass,
\* G, force)
computeForceRecursive(ns, nodeIndex, target, G) ==
  LET node == ns[nodeIndex + 1]
      direction == <<node.centerOfMass[1] - target.position[1],
                     node.centerOfMass[2] - target.position[2]>>
      distanceSquared == (direction[1] * direction[1])
                           + (direction[2] * direction[2]) + SOFTENING_SQUARED
  IN  IF node.particleCount = 0 THEN NoForce
      ELSE IF isLeaf(node) \/ farEnough(node, distanceSquared)
           THEN [force |-> pointMass(node, direction, distanceSquared, target.mass, G),
                 used |-> <<nodeIndex>>]
           ELSE plus(plus(computeForceRecursive(ns, node.childrenStartIndex, target, G),
                          computeForceRecursive(ns, node.childrenStartIndex + 1, target, G)),
                     plus(computeForceRecursive(ns, node.childrenStartIndex + 2, target, G),
                          computeForceRecursive(ns, node.childrenStartIndex + 3, target, G)))

\* OptimizedQuadtree::computeForceOnParticle(particleIndex, G)
computeForceOnParticle(t, bs, particleIndex, G) ==
  IF t.rootNode = -1 THEN NoForce
  ELSE computeForceRecursive(t.nodes, t.rootNode, bs[particleIndex], G)


-----------------------------------------------------------------------------
(* Callers of the two quadtrees: the particles are created first; then
   Quadtree::insert takes them one by one, Quadtree::rebuild and
   OptimizedQuadtree::buildTree take them all, and the force of either tree
   is asked for one of them *)

\* Particle(pos, m), in whole units
Body(x, y, m) == [position |-> <<x * QP, y * QP>>, mass |-> m]

\* gravitationalConstant values a caller passes
Gravities == {1, 100}

\* the bodies in the order a caller created them: a body at the centre of
\* the default root with one neighbour to the left and three to the right;
\* the same with a sixth body outside the default root; a body outside the
\* default root on either side after one inside; a far body and ten bodies
\* in one place;
\* ten bodies of two masses spread over a square
TreeScenes ==
  {<<Body(0, 0, 1), Body(-30, 0, 1), Body(10, 0, 1), Body(10, 0, 1), Body(10, 0, 1)>>,
   <<Body(0, 0, 1), Body(-30, 0, 1), Body(10, 0, 1), Body(10, 0, 1), Body(10, 0, 1),
     Body(-1200, 40, 2)>>,
   <<Body(20, 20, 1), Body(-1200, 0, 1), Body(40, 1600, 2)>>,
   <<Body(2600, -20, 2), Body(20, 20, 1)>>,
   <<Body(3000, 8, 1)>> \o [k \in 1..10 |-> Body(8, 8, 1)],
   <<Body(-300, -300, 1), Body(-300, 300, 2), Body(300, -300, 1), Body(300, 300, 2),
     Body(-100, -100, 1), Body(-100, 100, 1), Body(100, -100, 2), Body(100, 100, 1),
     Body(0, 0, 1), Body(120, 100, 2)>>}

\* the tree of the variable quadtree as the tree functions take it
asRun(t) == [nodes |-> t.nodes, rootNodeIndex |-> t.rootNodeIndex, dangling |-> FALSE]

\* initialize reserves room for NODES_RESERVED nodes.  insertRecursive holds
\* the reference `node` across subdivideNode and the recursive calls, so an
\* emplace_back that outgrows the reserved room leaves it dangling.
NODES_RESERVED == 2048

outgrown(run) == Len(run.nodes) > NODES_RESERVED

\* insert(p) reaches copyChildrenFromOldTree: the root does not contain the
\* position and has children
readsOldTree(t, position) ==
  /\ t.rootNodeIndex # -1
  /\ t.nodes # <<>>
  /\ ~contains(t.nodes[t.rootNodeIndex + 1].bounds, position)
  /\ ~isLeaf(t.nodes[t.rootNodeIndex + 1])

\* quadtree.insert(&particle) for the next particle of the caller
QuadtreeInsert ==
  /\ fault = "none"
  /\ Len(inserted) < Len(bodies)
  /\ op' = "insert"
  /\ \E stale \in IF readsOldTree(quadtree, bodies[Len(inserted) + 1].position)
                   THEN SUBSET Range(inserted) ELSE {Range(inserted)} :
       \E run \in {insert(asRun(quadtree), bodies, Len(inserted) + 1, stale)} :
         /\ run.dangling \/ stale = Range(inserted)
         /\ \/ /\ ~outgrown(run)
               /\ quadtree' = [nodes |-> run.nodes, rootNodeIndex |-> run.rootNodeIndex]
               /\ inserted' = Append(inserted, Len(inserted) + 1)
               /\ fault' = fault
            \/ /\ (run.dangling /\ stale = {}) \/ outgrown(run)
               /\ fault' = "use_after_free"
               /\ UNCHANGED <<quadtree, inserted>>
  /\ ret' = NoRet
  /\ UNCHANGED <<maxParticles, particles, nextParticleIndex, autoRemoveInactive,
                 inactiveIndices, interactionMatrix, numParticleTypes,
                 initialized, particleCount, boundary, enableBounds, ticks,
                 input, timeAccumulator, call, interactionLUT, bodies,
                 optimizedQuadtree>>

\* quadtree.rebuild(particles) with all the particles of the caller
QuadtreeRebuild ==
  /\ fault = "none"
  /\ op' = "rebuild"
  /\ \E run \in {rebuild(bodies, [k \in 1..Len(bodies) |-> k], {})} :
       /\ quadtree' = [nodes |-> run.nodes, rootNodeIndex |-> run.rootNodeIndex]
       /\ fault' = IF run.dangling \/ outgrown(run) THEN "use_after_free" ELSE fault
  /\ inserted' = [k \in 1..Len(bodies) |-> k]
  /\ ret' = NoRet
  /\ UNCHANGED <<maxParticles, particles, nextParticleIndex, autoRemoveInactive,
                 inactiveIndices, interactionMatrix, numParticleTypes,
                 initialized, particleCount, boundary, enableBounds, ticks,
                 input, timeAccumulator, call, interactionLUT, bodies,
                 optimizedQuadtree>>

\* optimizedQuadtree.buildTree()
BuildTree ==
  /\ fault = "none"
  /\ op' = "buildTree"
  /\ optimizedQuadtree' = buildTree(optimizedQuadtree, bodies)
  /\ ret' = NoRet
  /\ UNCHANGED <<maxParticles, particles, nextParticleIndex, autoRemoveInactive,
                 inactiveIndices, interactionMatrix, numParticleTypes,
                 initialized, particleCount, boundary, enableBounds, ticks,
                 input, timeAccumulator, call, interactionLUT, bodies, inserted,
                 quadtree, fault>>

\* quadtree.calculateForceOnParticle(*particle, gravitationalConstant)
CalculateForceOnParticle(target, G) ==
  /\ fault = "none"
  /\ op' = "calculateForceOnParticle"
  /\ \E walk \in {calculateForceOnParticle(quadtree, bodies[target], G)} :
       ret' = [NoRet EXCEPT !.target = target, !.value = G,
                            !.force = walk.force, !.used = walk.used]
  /\ UNCHANGED <<maxParticles, particles, nextParticleIndex, autoRemoveInactive,
                 inactiveIndices, interactionMatrix, numParticleTypes,
                 initialized, particleCount, boundary, enableBounds, ticks,
                 input, timeAccumulator, call, interactionLUT, treeVars, fault>>

\* optimizedQuadtree.computeForceOnParticle(particleIndex, gravitationalConstant)
ComputeForceOnParticle(particleIndex, G) ==
  /\ fault = "none"
  /\ op' = "computeForceOnParticle"
  /\ \E walk \in {computeForceOnParticle(optimizedQuadtree, bodies, particleIndex, G)} :
       ret' = [NoRet EXCEPT !.target = particleIndex, !.value = G,
                            !.force = walk.force, !.used = walk.used]
  /\ UNCHANGED <<maxParticles, particles, nextParticleIndex, autoRemoveInactive,
                 inactiveIndices, interactionMatrix, numParticleTypes,
                 initialized, particleCount, boundary, enableBounds, ticks,
                 input, timeAccumulator, call, interactionLUT, treeVars, fault>>

InitTree ==
  /\ bodies \in TreeScenes
  /\ inserted = <<>>
  /\ quadtree = NoQuadtree
  /\ optimizedQuadtree = NoOptimizedQuadtree
  /\ particles = <<>>
  /\ maxParticles = 0
  /\ nextParticleIndex = 0
  /\ autoRemoveInactive = FALSE
  /\ inactiveIndices = <<>>
  /\ numParticleTypes = 1
  /\ interactionMatrix \in initInteractionMatrix(numParticleTypes)
  /\ initialized = TRUE
  /\ particleCount = 0
  /\ boundary = DefaultBoundary
  /\ enableBounds = FALSE
  /\ ticks = 0
  /\ input = NoInput
  /\ op = "init"
  /\ ret = NoRet
  /\ fault = "none"
  /\ timeAccumulator = 0
  /\ call = Idle
  /\ interactionLUT = NoLUT

NextTree ==
  \/ QuadtreeInsert
  \/ QuadtreeRebuild
  \/ BuildTree
  \/ \E target \in 1..Len(bodies) : \E G \in Gravities :
       CalculateForceOnParticle(target, G)
  \/ \E particleIndex \in 1..Len(bodies) : \E G \in Gravities :
       ComputeForceOnParticle(particleIndex, G)

SpecTree == InitTree /\ [][NextTree]_vars


-----------------------------------------------------------------------------
(* Claims about the quadtrees, checked under SpecTree *)

\* how often particle p is stored in the leaves of a Quadtree node array
timesStored(ns, p) ==
  Cardinality({<<n, k>> \in (1..Len(ns)) \X (1..MAX_PARTICLES_PER_LEAF + 10) :
                 /\ k <= Len(ns[n].storedParticles)
                 /\ isLeaf(ns[n])
                 /\ ns[n].storedParticles[k] = p})

\* how often index idx is stored in the leaves of an OptimizedQuadtree
timesIndexed(ns, idx) ==
  Cardinality({<<n, k>> \in (1..Len(ns)) \X (1..optMAX_PARTICLES_PER_LEAF + 10) :
                 /\ k <= Len(ns[n].particleIndices)
                 /\ isLeaf(ns[n])
                 /\ ns[n].particleIndices[k] = idx})

\* an internal node has its 4 children at consecutive indices inside the
\* node array
hasFourChildren(ns, n) ==
  /\ ns[n].childrenStartIndex >= 1
  /\ ns[n].childrenStartIndex + 3 <= Len(ns) - 1

\* C26: after buildTree and after any sequence of insert and rebuild calls,
\* root expansion included, every inserted particle is stored in exactly one
\* leaf, every internal node has exactly 4 children at consecutive indices
\* inside the node array, and internal nodes store no particles.
C26_EachParticleInOneLeaf ==
  /\ fault = "none"
  /\ \A p \in Range(inserted) : timesStored(quadtree.nodes, p) = 1
  /\ \A n \in 1..Len(quadtree.nodes) :
       ~isLeaf(quadtree.nodes[n]) =>
         /\ hasFourChildren(quadtree.nodes, n)
         /\ quadtree.nodes[n].storedParticles = <<>>
  /\ optimizedQuadtree.nodes # <<>> =>
       /\ \A idx \in 1..Len(bodies) : timesIndexed(optimizedQuadtree.nodes, idx) = 1
       /\ \A n \in 1..Len(optimizedQuadtree.nodes) :
            ~isLeaf(optimizedQuadtree.nodes[n]) =>
              /\ hasFourChildren(optimizedQuadtree.nodes, n)
              /\ optimizedQuadtree.nodes[n].particleIndices = <<>>

\* C27: after rebuild or buildTree, and after each insert(p) for any
\* position, the root bounds contain the position of every particle stored
\* in the tree.
C27_RootContainsAll ==
  /\ \A p \in Range(inserted) :
       quadtree.nodes # <<>> =>
         contains(quadtree.nodes[quadtree.rootNodeIndex + 1].bounds, bodies[p].position)
  /\ optimizedQuadtree.nodes # <<>> =>
       \A idx \in 1..Len(bodies) :
         contains(optimizedQuadtree.nodes[optimizedQuadtree.rootNode + 1].bounds,
                  bodies[idx].position)


RECURSIVE leavesUnder(_, _, _)
\* the particles in the subtree of node index n; leaf lists are read from
\* the field named stored
leavesUnder(ns, n, stored) ==
  IF isLeaf(ns[n + 1]) THEN ns[n + 1][stored]
  ELSE leavesUnder(ns, ns[n + 1].childrenStartIndex, stored)
         \o leavesUnder(ns, ns[n + 1].childrenStartIndex + 1, stored)
         \o leavesUnder(ns, ns[n + 1].childrenStartIndex + 2, stored)
         \o leavesUnder(ns, ns[n + 1].childrenStartIndex + 3, stored)

\* the rounding a center of mass may carry: one step per level of the tree
MassTolerance == MAX_DEPTH + 1

\* totalMass, particleCount and centerOfMass of a node agree with the
\* particles of its subtree
massAgrees(ns, n, stored) ==
  LET under == leavesUnder(ns, n, stored)
      node == ns[n + 1]
      total == massOf(bodies, under)
  IN  /\ node.totalMass = total
      /\ node.particleCount = Len(under)
      /\ total > 0 =>
           \A axis \in 1..2 :
             Abs(node.centerOfMass[axis] - TDiv(momentOf(bodies, under, axis), total))
               <= MassTolerance
      /\ Len(under) = 1 => node.centerOfMass = bodies[under[1]].position

\* C28: in a built tree every node's totalMass is the sum of the masses of
\* the particles in its subtree, its particleCount their number and its
\* centerOfMass their mass-weighted mean position; a node holding a single
\* particle has its center of mass exactly at that particle.
C28_MassDistribution ==
  /\ fault = "none" =>
       \A n \in 1..Len(quadtree.nodes) :
         massAgrees(quadtree.nodes, n - 1, "storedParticles")
  /\ \A n \in 1..Len(optimizedQuadtree.nodes) :
       massAgrees(optimizedQuadtree.nodes, n - 1, "particleIndices")


\* the squared distance from a target to the center of mass of node index n
squaredDistance(ns, n, target) ==
  LET dx == ns[n + 1].centerOfMass[1] - target.position[1]
      dy == ns[n + 1].centerOfMass[2] - target.position[2]
  IN  (dx * dx) + (dy * dy)

RECURSIVE selectedNodes(_, _, _, _)
\* the nodes the rule selects from node index n on: a non-empty node is
\* taken if it is a leaf or (2 * halfDimension) / distance < THETA, and
\* otherwise its 4 children are visited
selectedNodes(ns, n, target, softening) ==
  LET node == ns[n + 1]
  IN  IF node.particleCount = 0 THEN <<>>
      ELSE IF isLeaf(node)
                \/ farEnough(node, squaredDistance(ns, n, target) + softening)
           THEN <<n>>
           ELSE selectedNodes(ns, node.childrenStartIndex, target, softening)
                  \o selectedNodes(ns, node.childrenStartIndex + 1, target, softening)
                  \o selectedNodes(ns, node.childrenStartIndex + 2, target, softening)
                  \o selectedNodes(ns, node.childrenStartIndex + 3, target, softening)

RECURSIVE sumOfPointMasses(_, _, _, _, _)
\* the sum of the point-mass contributions of a list of nodes
sumOfPointMasses(ns, selected, target, G, softening) ==
  IF selected = <<>> THEN <<0, 0>>
  ELSE LET node == ns[Head(selected) + 1]
           direction == <<node.centerOfMass[1] - target.position[1],
                          node.centerOfMass[2] - target.position[2]>>
           one == pointMass(node, direction,
                            squaredDistance(ns, Head(selected), target) + softening,
                            target.mass, G)
           rest == sumOfPointMasses(ns, Tail(selected), target, G, softening)
       IN  <<one[1] + rest[1], one[2] + rest[2]>>

\* a force walk used the nodes the rule selects from the root and returned
\* the sum of their contributions; a node at distance 0 contributes nothing
followsRule(ns, root, softening) ==
  LET target == bodies[ret.target]
      selected == IF ns = <<>> THEN <<>>
                  ELSE selectedNodes(ns, root, target, softening)
  IN  /\ SelectSeq(ret.used, LAMBDA n : squaredDistance(ns, n, target) # 0)
           = SelectSeq(selected, LAMBDA n : squaredDistance(ns, n, target) # 0)
      /\ ret.force = sumOfPointMasses(ns, selected, target, ret.value, softening)

\* C29: the Barnes-Hut force on a target is the sum of the point-mass
\* contributions of exactly the nodes the opening rule selects from the
\* root; no non-empty internal node that fails the criterion is dropped
\* without a visit of its children.
C29_ForceFollowsOpeningRule ==
  /\ op = "calculateForceOnParticle" =>
       followsRule(quadtree.nodes, quadtree.rootNodeIndex, 0)
  /\ op = "computeForceOnParticle" =>
       followsRule(optimizedQuadtree.nodes, optimizedQuadtree.rootNode,
                   SOFTENING_SQUARED)


\* ---------------------------------------------------------------------------
\* Tree construction from a whole particle set: rebuild and buildTree
\* ---------------------------------------------------------------------------

\* a body far away and n bodies in one place
Cluster(far, n) == <<Body(far, 8, 1)>> \o [k \in 1..n |-> Body(8, 8, 1)]

\* n * n places, spacing apart, with five bodies in each place
Lattice(n, spacing) ==
  [k \in 1..(n * n * 5) |->
     Body((((k - 1) \div 5) % n) * spacing, (((k - 1) \div 5) \div n) * spacing, 1)]

MaxCluster == 12
LatticeSide == 6
FarPlaces == {100, 3000, 1000 * 1000, 4000 * 1000}
LatticeSpacings == {16, 256 * 1024}

DepthScenes ==
  {Cluster(far, n) : far \in FarPlaces, n \in 5..MaxCluster}
    \cup {Lattice(LatticeSide, spacing) : spacing \in LatticeSpacings}

InitDepth ==
  /\ bodies \in DepthScenes
  /\ inserted = <<>>
  /\ quadtree = NoQuadtree
  /\ optimizedQuadtree = NoOptimizedQuadtree
  /\ particles = <<>>
  /\ maxParticles = 0
  /\ nextParticleIndex = 0
  /\ autoRemoveInactive = FALSE
  /\ inactiveIndices = <<>>
  /\ numParticleTypes = 1
  /\ interactionMatrix = <<<<0>>>>
  /\ initialized = TRUE
  /\ particleCount = 0
  /\ boundary = DefaultBoundary
  /\ enableBounds = FALSE
  /\ ticks = 0
  /\ input = NoInput
  /\ op = "init"
  /\ ret = NoRet
  /\ fault = "none"
  /\ timeAccumulator = 0
  /\ call = Idle
  /\ interactionLUT = NoLUT

NextDepth ==
  \/ QuadtreeRebuild
  \/ BuildTree

SpecDepth == InitDepth /\ [][NextDepth]_vars

\* the number of particles a leaf of either tree holds
leafLoad(node) ==
  IF "storedParticles" \in DOMAIN node THEN Len(node.storedParticles)
  ELSE Len(node.particleIndices)

RECURSIVE withinDepth(_, _, _, _)
\* under node n at the given depth no node is deeper than MAX_DEPTH, and a
\* leaf holds more than perLeaf particles only at MAX_DEPTH or minimum size
withinDepth(ns, n, depth, perLeaf) ==
  LET node == ns[n + 1]
  IN  /\ depth <= MAX_DEPTH
      /\ IF isLeaf(node)
         THEN leafLoad(node) > perLeaf
                => (depth = MAX_DEPTH \/ node.bounds.halfDimension <= MIN_NODE_SIZE)
         ELSE \A i \in 0..3 :
                withinDepth(ns, node.childrenStartIndex + i, depth + 1, perLeaf)

\* C30: tree construction completes for every particle set, no node is
\* deeper than MAX_DEPTH, and a leaf holds more than MAX_PARTICLES_PER_LEAF
\* particles only at depth MAX_DEPTH or with a half-dimension at or below
\* MIN_NODE_SIZE
C30_ConstructionIsBounded ==
  /\ fault = "none"
  /\ quadtree.nodes # <<>>
       => withinDepth(quadtree.nodes, quadtree.rootNodeIndex, 0,
                      MAX_PARTICLES_PER_LEAF)
  /\ optimizedQuadtree.nodes # <<>>
       => withinDepth(optimizedQuadtree.nodes, optimizedQuadtree.rootNode, 0,
                      optMAX_PARTICLES_PER_LEAF)

=============================================================================
